---- MODULE Spec2Model ----
(***************************************************************************)
(* A model of the multibit-trie stride node of bart (node.go) and of the   *)
(* base-index codec (base_index.go), together with the table operations    *)
(* that descend the trie stride by stride.                                 *)
(*                                                                         *)
(* Nodes live in a heap keyed by node addresses, so that sharing between   *)
(* two tables is expressible.  Go slices are 0-based; a slice is modelled  *)
(* as a sequence and slot k of the slice is element k+1 of the sequence.   *)
(***************************************************************************)
EXTENDS Integers, Sequences, FiniteSets, TLC

VARIABLES heap, ref, last

vars == <<heap, ref, last>>

(***************************************************************************)
(* Bounds of the model.                                                    *)
(***************************************************************************)
\* number of prefixes of PfxList the operations of Spec draw from
NumPfx == 2
\* number of prefixes of PfxList the operations of SpecOne draw from
NumPfxOne == 5
\* number of prefixes of PfxList the operations of SpecOv draw from
NumPfxOv == 4
\* the number of prefixes of SpecRd
NumPfxRd == 5
\* the number of prefixes of SpecLpm
NumPfxLpm == 3
\* the number of prefixes of SpecPc
NumPfxPc == 3
\* stored values are 1..MaxVal
MaxVal == 2
\* the errors a walk callback returns are 1..MaxErr
MaxErr == 2
\* the number of prefixes of SpecNq
NumPfxNq == 4
\* the number of prefixes of SpecWk
NumPfxWk == 4
\* the number of prefixes of SpecTm
NumPfxTm == 2
\* a loop of SpecTm runs at most MaxRounds rounds
MaxRounds == 12

(***************************************************************************)
(* node.go: constants                                                      *)
(***************************************************************************)
strideLen == 8
maxNodeChildren == 256
maxNodePrefixes == 512

(***************************************************************************)
(* base_index.go                                                           *)
(***************************************************************************)
hostMasks == <<255, 127, 63, 31, 15, 7, 3, 1, 0>>

firstHostIndex == 256
lastHostIndex == 511

\* x >> k and x << k on unsigned integers
Shr(x, k) == x \div (2 ^ k)
Shl(x, k) == x * (2 ^ k)

\* a | b on bytes
RECURSIVE BitOr(_, _, _)
BitOr(a, b, k) ==
  IF k = 0 THEN 0
  ELSE (IF a % 2 = 1 \/ b % 2 = 1 THEN 1 ELSE 0) + 2 * BitOr(a \div 2, b \div 2, k - 1)

Or8(a, b) == BitOr(a, b, 8)

\* a prefixToBaseIndex that shifts the octet by the prefix length
prefixToBaseIndex_ShiftByLen(octet, prefixLen) ==
  Shr(octet, prefixLen) + Shl(1, prefixLen)

\* prefixToBaseIndex: uint(octet>>(strideLen-prefixLen)) + (1 << prefixLen)
prefixToBaseIndex(octet, prefixLen) ==
  Shr(octet, strideLen - prefixLen) + Shl(1, prefixLen)

\* octetToBaseIndex: octet + 256
octetToBaseIndex(octet) == octet + firstHostIndex

\* the lookup table baseIdx2Pfx, entry idx is element idx+1: <<octet, bits>>
baseIdx2Pfx ==
  <<
    <<0, -1>>, <<0, 0>>, <<0, 1>>, <<128, 1>>, <<0, 2>>, <<64, 2>>, <<128, 2>>, <<192, 2>>,
    <<0, 3>>, <<32, 3>>, <<64, 3>>, <<96, 3>>, <<128, 3>>, <<160, 3>>, <<192, 3>>, <<224, 3>>,
    <<0, 4>>, <<16, 4>>, <<32, 4>>, <<48, 4>>, <<64, 4>>, <<80, 4>>, <<96, 4>>, <<112, 4>>,
    <<128, 4>>, <<144, 4>>, <<160, 4>>, <<176, 4>>, <<192, 4>>, <<208, 4>>, <<224, 4>>, <<240, 4>>,
    <<0, 5>>, <<8, 5>>, <<16, 5>>, <<24, 5>>, <<32, 5>>, <<40, 5>>, <<48, 5>>, <<56, 5>>,
    <<64, 5>>, <<72, 5>>, <<80, 5>>, <<88, 5>>, <<96, 5>>, <<104, 5>>, <<112, 5>>, <<120, 5>>,
    <<128, 5>>, <<136, 5>>, <<144, 5>>, <<152, 5>>, <<160, 5>>, <<168, 5>>, <<176, 5>>, <<184, 5>>,
    <<192, 5>>, <<200, 5>>, <<208, 5>>, <<216, 5>>, <<224, 5>>, <<232, 5>>, <<240, 5>>, <<248, 5>>,
    <<0, 6>>, <<4, 6>>, <<8, 6>>, <<12, 6>>, <<16, 6>>, <<20, 6>>, <<24, 6>>, <<28, 6>>,
    <<32, 6>>, <<36, 6>>, <<40, 6>>, <<44, 6>>, <<48, 6>>, <<52, 6>>, <<56, 6>>, <<60, 6>>,
    <<64, 6>>, <<68, 6>>, <<72, 6>>, <<76, 6>>, <<80, 6>>, <<84, 6>>, <<88, 6>>, <<92, 6>>,
    <<96, 6>>, <<100, 6>>, <<104, 6>>, <<108, 6>>, <<112, 6>>, <<116, 6>>, <<120, 6>>, <<124, 6>>,
    <<128, 6>>, <<132, 6>>, <<136, 6>>, <<140, 6>>, <<144, 6>>, <<148, 6>>, <<152, 6>>, <<156, 6>>,
    <<160, 6>>, <<164, 6>>, <<168, 6>>, <<172, 6>>, <<176, 6>>, <<180, 6>>, <<184, 6>>, <<188, 6>>,
    <<192, 6>>, <<196, 6>>, <<200, 6>>, <<204, 6>>, <<208, 6>>, <<212, 6>>, <<216, 6>>, <<220, 6>>,
    <<224, 6>>, <<228, 6>>, <<232, 6>>, <<236, 6>>, <<240, 6>>, <<244, 6>>, <<248, 6>>, <<252, 6>>,
    <<0, 7>>, <<2, 7>>, <<4, 7>>, <<6, 7>>, <<8, 7>>, <<10, 7>>, <<12, 7>>, <<14, 7>>,
    <<16, 7>>, <<18, 7>>, <<20, 7>>, <<22, 7>>, <<24, 7>>, <<26, 7>>, <<28, 7>>, <<30, 7>>,
    <<32, 7>>, <<34, 7>>, <<36, 7>>, <<38, 7>>, <<40, 7>>, <<42, 7>>, <<44, 7>>, <<46, 7>>,
    <<48, 7>>, <<50, 7>>, <<52, 7>>, <<54, 7>>, <<56, 7>>, <<58, 7>>, <<60, 7>>, <<62, 7>>,
    <<64, 7>>, <<66, 7>>, <<68, 7>>, <<70, 7>>, <<72, 7>>, <<74, 7>>, <<76, 7>>, <<78, 7>>,
    <<80, 7>>, <<82, 7>>, <<84, 7>>, <<86, 7>>, <<88, 7>>, <<90, 7>>, <<92, 7>>, <<94, 7>>,
    <<96, 7>>, <<98, 7>>, <<100, 7>>, <<102, 7>>, <<104, 7>>, <<106, 7>>, <<108, 7>>, <<110, 7>>,
    <<112, 7>>, <<114, 7>>, <<116, 7>>, <<118, 7>>, <<120, 7>>, <<122, 7>>, <<124, 7>>, <<126, 7>>,
    <<128, 7>>, <<130, 7>>, <<132, 7>>, <<134, 7>>, <<136, 7>>, <<138, 7>>, <<140, 7>>, <<142, 7>>,
    <<144, 7>>, <<146, 7>>, <<148, 7>>, <<150, 7>>, <<152, 7>>, <<154, 7>>, <<156, 7>>, <<158, 7>>,
    <<160, 7>>, <<162, 7>>, <<164, 7>>, <<166, 7>>, <<168, 7>>, <<170, 7>>, <<172, 7>>, <<174, 7>>,
    <<176, 7>>, <<178, 7>>, <<180, 7>>, <<182, 7>>, <<184, 7>>, <<186, 7>>, <<188, 7>>, <<190, 7>>,
    <<192, 7>>, <<194, 7>>, <<196, 7>>, <<198, 7>>, <<200, 7>>, <<202, 7>>, <<204, 7>>, <<206, 7>>,
    <<208, 7>>, <<210, 7>>, <<212, 7>>, <<214, 7>>, <<216, 7>>, <<218, 7>>, <<220, 7>>, <<222, 7>>,
    <<224, 7>>, <<226, 7>>, <<228, 7>>, <<230, 7>>, <<232, 7>>, <<234, 7>>, <<236, 7>>, <<238, 7>>,
    <<240, 7>>, <<242, 7>>, <<244, 7>>, <<246, 7>>, <<248, 7>>, <<250, 7>>, <<252, 7>>, <<254, 7>>,
    <<0, 8>>, <<1, 8>>, <<2, 8>>, <<3, 8>>, <<4, 8>>, <<5, 8>>, <<6, 8>>, <<7, 8>>,
    <<8, 8>>, <<9, 8>>, <<10, 8>>, <<11, 8>>, <<12, 8>>, <<13, 8>>, <<14, 8>>, <<15, 8>>,
    <<16, 8>>, <<17, 8>>, <<18, 8>>, <<19, 8>>, <<20, 8>>, <<21, 8>>, <<22, 8>>, <<23, 8>>,
    <<24, 8>>, <<25, 8>>, <<26, 8>>, <<27, 8>>, <<28, 8>>, <<29, 8>>, <<30, 8>>, <<31, 8>>,
    <<32, 8>>, <<33, 8>>, <<34, 8>>, <<35, 8>>, <<36, 8>>, <<37, 8>>, <<38, 8>>, <<39, 8>>,
    <<40, 8>>, <<41, 8>>, <<42, 8>>, <<43, 8>>, <<44, 8>>, <<45, 8>>, <<46, 8>>, <<47, 8>>,
    <<48, 8>>, <<49, 8>>, <<50, 8>>, <<51, 8>>, <<52, 8>>, <<53, 8>>, <<54, 8>>, <<55, 8>>,
    <<56, 8>>, <<57, 8>>, <<58, 8>>, <<59, 8>>, <<60, 8>>, <<61, 8>>, <<62, 8>>, <<63, 8>>,
    <<64, 8>>, <<65, 8>>, <<66, 8>>, <<67, 8>>, <<68, 8>>, <<69, 8>>, <<70, 8>>, <<71, 8>>,
    <<72, 8>>, <<73, 8>>, <<74, 8>>, <<75, 8>>, <<76, 8>>, <<77, 8>>, <<78, 8>>, <<79, 8>>,
    <<80, 8>>, <<81, 8>>, <<82, 8>>, <<83, 8>>, <<84, 8>>, <<85, 8>>, <<86, 8>>, <<87, 8>>,
    <<88, 8>>, <<89, 8>>, <<90, 8>>, <<91, 8>>, <<92, 8>>, <<93, 8>>, <<94, 8>>, <<95, 8>>,
    <<96, 8>>, <<97, 8>>, <<98, 8>>, <<99, 8>>, <<100, 8>>, <<101, 8>>, <<102, 8>>, <<103, 8>>,
    <<104, 8>>, <<105, 8>>, <<106, 8>>, <<107, 8>>, <<108, 8>>, <<109, 8>>, <<110, 8>>, <<111, 8>>,
    <<112, 8>>, <<113, 8>>, <<114, 8>>, <<115, 8>>, <<116, 8>>, <<117, 8>>, <<118, 8>>, <<119, 8>>,
    <<120, 8>>, <<121, 8>>, <<122, 8>>, <<123, 8>>, <<124, 8>>, <<125, 8>>, <<126, 8>>, <<127, 8>>,
    <<128, 8>>, <<129, 8>>, <<130, 8>>, <<131, 8>>, <<132, 8>>, <<133, 8>>, <<134, 8>>, <<135, 8>>,
    <<136, 8>>, <<137, 8>>, <<138, 8>>, <<139, 8>>, <<140, 8>>, <<141, 8>>, <<142, 8>>, <<143, 8>>,
    <<144, 8>>, <<145, 8>>, <<146, 8>>, <<147, 8>>, <<148, 8>>, <<149, 8>>, <<150, 8>>, <<151, 8>>,
    <<152, 8>>, <<153, 8>>, <<154, 8>>, <<155, 8>>, <<156, 8>>, <<157, 8>>, <<158, 8>>, <<159, 8>>,
    <<160, 8>>, <<161, 8>>, <<162, 8>>, <<163, 8>>, <<164, 8>>, <<165, 8>>, <<166, 8>>, <<167, 8>>,
    <<168, 8>>, <<169, 8>>, <<170, 8>>, <<171, 8>>, <<172, 8>>, <<173, 8>>, <<174, 8>>, <<175, 8>>,
    <<176, 8>>, <<177, 8>>, <<178, 8>>, <<179, 8>>, <<180, 8>>, <<181, 8>>, <<182, 8>>, <<183, 8>>,
    <<184, 8>>, <<185, 8>>, <<186, 8>>, <<187, 8>>, <<188, 8>>, <<189, 8>>, <<190, 8>>, <<191, 8>>,
    <<192, 8>>, <<193, 8>>, <<194, 8>>, <<195, 8>>, <<196, 8>>, <<197, 8>>, <<198, 8>>, <<199, 8>>,
    <<200, 8>>, <<201, 8>>, <<202, 8>>, <<203, 8>>, <<204, 8>>, <<205, 8>>, <<206, 8>>, <<207, 8>>,
    <<208, 8>>, <<209, 8>>, <<210, 8>>, <<211, 8>>, <<212, 8>>, <<213, 8>>, <<214, 8>>, <<215, 8>>,
    <<216, 8>>, <<217, 8>>, <<218, 8>>, <<219, 8>>, <<220, 8>>, <<221, 8>>, <<222, 8>>, <<223, 8>>,
    <<224, 8>>, <<225, 8>>, <<226, 8>>, <<227, 8>>, <<228, 8>>, <<229, 8>>, <<230, 8>>, <<231, 8>>,
    <<232, 8>>, <<233, 8>>, <<234, 8>>, <<235, 8>>, <<236, 8>>, <<237, 8>>, <<238, 8>>, <<239, 8>>,
    <<240, 8>>, <<241, 8>>, <<242, 8>>, <<243, 8>>, <<244, 8>>, <<245, 8>>, <<246, 8>>, <<247, 8>>,
    <<248, 8>>, <<249, 8>>, <<250, 8>>, <<251, 8>>, <<252, 8>>, <<253, 8>>, <<254, 8>>, <<255, 8>>
  >>

\* baseIndexToPrefix: the octet and prefix length of baseIdx, from the table
baseIndexToPrefix(baseIdx) == baseIdx2Pfx[baseIdx + 1]

\* baseIndexToPrefixMask: depth*strideLen + pfxLen
baseIndexToPrefixMask(baseIdx, depth) ==
  depth * strideLen + baseIndexToPrefix(baseIdx)[2]

\* lowerUpperBound: the range of host routes of the prefix idx, <<lower, upper>>
lowerUpperBound(idx) ==
  LET octet == baseIndexToPrefix(idx)[1]
      bits  == baseIndexToPrefix(idx)[2]
  IN  <<octetToBaseIndex(octet), octetToBaseIndex(Or8(octet, hostMasks[bits + 1]))>>

\* the entries an allotRec that descends to the left half only sets
RECURSIVE AllotRecLeftWrites(_)
AllotRecLeftWrites(idx) ==
  {idx} \cup (IF idx >= firstHostIndex THEN {} ELSE AllotRecLeftWrites(Shl(idx, 1)))

allotRec_LeftOnly(allotTbl, idx) == allotTbl \cup AllotRecLeftWrites(idx)

\* the entries allotRec(allotTbl, idx) sets to true: idx, and below the last
\* stage those of allotRec(idx<<1) and of allotRec(idx<<1+1)
RECURSIVE AllotRecWrites(_)
AllotRecWrites(idx) ==
  {idx} \cup (IF idx >= firstHostIndex THEN {}
              ELSE AllotRecWrites(Shl(idx, 1)) \cup AllotRecWrites(Shl(idx, 1) + 1))

\* allotRec: the recursive part of allot; an allotment table [512]bool is
\* the set of its true entries, and allotRec writes the table and never
\* reads it
allotRec(allotTbl, idx) == allotTbl \cup AllotRecWrites(idx)

\* the rounds lo, lo + 1, ..., hi of the loop of allot, in this order; a
\* round is: if allotTbl[idx] { allotTbl[idx<<1] = true; allotTbl[idx<<1+1] =
\* true }, and no round sets an entry of an all-false table
RECURSIVE AllotRounds(_, _, _)
AllotRounds(allotTbl, lo, hi) ==
  IF lo > hi \/ allotTbl = {} THEN allotTbl
  ELSE IF lo = hi
    THEN (IF lo \in allotTbl
            THEN allotTbl \cup {Shl(lo, 1), Shl(lo, 1) + 1}
            ELSE allotTbl)
  ELSE LET mid == (lo + hi) \div 2
       IN  AllotRounds(AllotRounds(allotTbl, lo, mid), mid + 1, hi)

\* allot: recursion for idx >= 4; below, allotTbl[idx] = true and the loop
\* for idx < firstHostIndex { ...; idx++ }
allot(allotTbl, idx) ==
  IF idx >= 4 THEN allotRec(allotTbl, idx)
  ELSE AllotRounds(allotTbl \cup {idx}, idx, firstHostIndex - 1)

(***************************************************************************)
(* The bitset collaborator: a bitset is the set of its set bits.           *)
(***************************************************************************)
Test(bs, i) == i \in bs
Rank(bs, i) == Cardinality({j \in bs : j <= i})
SetMin(S) == CHOOSE x \in S : \A y \in S : x <= y
\* NextSet(from): <<index, ok>>, the smallest set index >= from
NextSet(bs, from) ==
  LET S == {j \in bs : j >= from}
  IN  IF S = {} THEN <<0, FALSE>> ELSE <<SetMin(S), TRUE>>
\* NextSetMany(0, buf): all set bits in ascending order
RECURSIVE Ascending(_)
Ascending(S) ==
  IF S = {} THEN <<>> ELSE <<SetMin(S)>> \o Ascending(S \ {SetMin(S)})

(***************************************************************************)
(* Go slices                                                               *)
(***************************************************************************)
\* s[i] for a 0-based index i
At(s, i) == s[i + 1]
\* s[i] = v
Put(s, i, v) == [s EXCEPT ![i + 1] = v]
\* slices.Insert(s, i, v)
SliceInsert(s, i, v) == SubSeq(s, 1, i) \o <<v>> \o SubSeq(s, i + 1, Len(s))
\* slices.Delete(s, i, j)
SliceDelete(s, i, j) == SubSeq(s, 1, i) \o SubSeq(s, j + 1, Len(s))

(***************************************************************************)
(* node.go: the stride node                                                *)
(***************************************************************************)
\* the zero value of V
ZeroVal == 0

\* the nil node pointer
NIL == <<"nil", TRUE, <<>>>>

newNode ==
  [prefixesBitset |-> {}, childrenBitset |-> {}, prefixes |-> <<>>, children |-> <<>>]

isEmpty(n) == Len(n.prefixes) = 0 /\ Len(n.children) = 0

prefixRank(n, baseIdx) == Rank(n.prefixesBitset, baseIdx) - 1

\* an insertIdx that leaves the value of a prefix that exists
insertIdx_NoOverwrite(n, baseIdx, val) ==
  IF Test(n.prefixesBitset, baseIdx)
  THEN n
  ELSE LET m == [n EXCEPT !.prefixesBitset = @ \cup {baseIdx}]
       IN  [m EXCEPT !.prefixes = SliceInsert(@, prefixRank(m, baseIdx), val)]

insertIdx(n, baseIdx, val) ==
  IF Test(n.prefixesBitset, baseIdx)
  THEN [n EXCEPT !.prefixes = Put(n.prefixes, prefixRank(n, baseIdx), val)]
  ELSE LET m == [n EXCEPT !.prefixesBitset = @ \cup {baseIdx}]
       IN  [m EXCEPT !.prefixes = SliceInsert(@, prefixRank(m, baseIdx), val)]

insertPrefix(n, octet, prefixLen, val) ==
  insertIdx(n, prefixToBaseIndex(octet, prefixLen), val)

\* a deletePrefix without the test for the route entry
deletePrefix_NoTest(n, octet, prefixLen) ==
  LET baseIdx == prefixToBaseIndex(octet, prefixLen)
      rnk     == prefixRank(n, baseIdx)
  IN  [node |-> [n EXCEPT !.prefixes = SliceDelete(@, rnk, rnk + 1),
                          !.prefixesBitset = @ \ {baseIdx}],
       wasPresent |-> TRUE]

\* a deletePrefix that removes the value and leaves the bit set
deletePrefix_KeepsBit(n, octet, prefixLen) ==
  LET baseIdx == prefixToBaseIndex(octet, prefixLen)
      rnk     == prefixRank(n, baseIdx)
  IN  IF ~Test(n.prefixesBitset, baseIdx)
      THEN [node |-> n, wasPresent |-> FALSE]
      ELSE [node |-> [n EXCEPT !.prefixes = SliceDelete(@, rnk, rnk + 1)],
            wasPresent |-> TRUE]

\* deletePrefix: [node, wasPresent]
deletePrefix(n, octet, prefixLen) ==
  LET baseIdx == prefixToBaseIndex(octet, prefixLen)
      rnk     == prefixRank(n, baseIdx)
  IN  IF ~Test(n.prefixesBitset, baseIdx)
      THEN [node |-> n, wasPresent |-> FALSE]
      ELSE [node |-> [n EXCEPT !.prefixes = SliceDelete(@, rnk, rnk + 1),
                               !.prefixesBitset = @ \ {baseIdx}],
            wasPresent |-> TRUE]

\* the callbacks handed to updatePrefix: cb(val, ok)
ApplyCb(cb, val, ok) == IF ok THEN (val % MaxVal) + 1 ELSE cb

\* an updatePrefix that takes the rank of a new prefix before it sets the bit
updatePrefix_RankBeforeSet(n, octet, prefixLen, cb) ==
  LET baseIdx == prefixToBaseIndex(octet, prefixLen)
      ok      == Test(n.prefixesBitset, baseIdx)
      old     == IF ok THEN At(n.prefixes, prefixRank(n, baseIdx)) ELSE ZeroVal
      val     == ApplyCb(cb, old, ok)
      rnk     == IF prefixRank(n, baseIdx) < 0 THEN 0 ELSE prefixRank(n, baseIdx)
  IN  IF ok
      THEN [node |-> [n EXCEPT !.prefixes = Put(@, rnk, val)],
            val |-> val, calls |-> <<<<old, ok>>>>]
      ELSE [node |-> [n EXCEPT !.prefixesBitset = @ \cup {baseIdx},
                               !.prefixes = SliceInsert(@, rnk, val)],
            val |-> val, calls |-> <<<<old, ok>>>>]

\* updatePrefix: [node, val, calls], calls being the arguments of the
\* invocations of cb
updatePrefix(n, octet, prefixLen, cb) ==
  LET baseIdx == prefixToBaseIndex(octet, prefixLen)
      ok      == Test(n.prefixesBitset, baseIdx)
      old     == IF ok THEN At(n.prefixes, prefixRank(n, baseIdx)) ELSE ZeroVal
      val     == ApplyCb(cb, old, ok)
  IN  IF ok
      THEN [node |-> [n EXCEPT !.prefixes = Put(@, prefixRank(n, baseIdx), val)],
            val |-> val, calls |-> <<<<old, ok>>>>]
      ELSE LET m == [n EXCEPT !.prefixesBitset = @ \cup {baseIdx}]
           IN  [node |-> [m EXCEPT !.prefixes = SliceInsert(@, prefixRank(m, baseIdx), val)],
                val |-> val, calls |-> <<<<old, ok>>>>]

\* a lpmByIndex that gives up after the first bitset test (no backtracking)
lpmByIndex_NoBacktrack(n, idx) ==
  IF Test(n.prefixesBitset, idx)
  THEN <<idx, At(n.prefixes, prefixRank(n, idx)), TRUE, 1, 1>>
  ELSE <<0, ZeroVal, FALSE, 1, 0>>

\* a lpmByIndex whose loop ends at index 1 without testing it
RECURSIVE lpmByIndex_MissesDefault(_, _)
lpmByIndex_MissesDefault(n, idx) ==
  IF idx <= 1 THEN <<0, ZeroVal, FALSE, 0, 0>>
  ELSE IF Test(n.prefixesBitset, idx)
  THEN <<idx, At(n.prefixes, prefixRank(n, idx)), TRUE, 1, 1>>
  ELSE LET r == lpmByIndex_MissesDefault(n, Shr(idx, 1))
       IN  <<r[1], r[2], r[3], r[4] + 1, r[5]>>

\* lpmByIndex: <<baseIdx, val, ok, tests, ranks>>, the result and the
\* numbers of bitset tests and of rank computations of the call
RECURSIVE lpmByIndex(_, _)
lpmByIndex(n, idx) ==
  IF Test(n.prefixesBitset, idx)
  THEN <<idx, At(n.prefixes, prefixRank(n, idx)), TRUE, 1, 1>>
  ELSE IF idx = 0 THEN <<0, ZeroVal, FALSE, 1, 0>>
  ELSE LET r == lpmByIndex(n, Shr(idx, 1))
       IN  <<r[1], r[2], r[3], r[4] + 1, r[5]>>

lpmByOctet(n, octet) == lpmByIndex(n, octetToBaseIndex(octet))

\* a lpmByPrefix that starts at the host route of the octet
lpmByPrefix_FromHost(n, octet, bits) == lpmByIndex(n, octetToBaseIndex(octet))

lpmByPrefix(n, octet, bits) == lpmByIndex(n, prefixToBaseIndex(octet, bits))

\* getValByIndex: <<val, ok>>
getValByIndex(n, baseIdx) ==
  IF Test(n.prefixesBitset, baseIdx)
  THEN <<At(n.prefixes, prefixRank(n, baseIdx)), TRUE>>
  ELSE <<ZeroVal, FALSE>>

getValByPrefix(n, octet, bits) == getValByIndex(n, prefixToBaseIndex(octet, bits))

\* slices.Sort on a []uint: ascending order
RECURSIVE SortUintInsert(_, _)
SortUintInsert(sorted, x) ==
  IF sorted = <<>> THEN <<x>>
  ELSE IF x < Head(sorted) THEN <<x>> \o sorted
  ELSE <<Head(sorted)>> \o SortUintInsert(Tail(sorted), x)

RECURSIVE slicesSort(_)
slicesSort(seq) ==
  IF seq = <<>> THEN <<>>
  ELSE SortUintInsert(slicesSort(Tail(seq)), Head(seq))

\* the backtracking loop of apmByPrefix: the set indexes of the chain idx,
\* idx >> 1, ..., 0 in the order they are appended
RECURSIVE ApmCollect(_, _)
ApmCollect(n, idx) ==
  LET here == IF Test(n.prefixesBitset, idx) THEN <<idx>> ELSE <<>>
  IN  IF idx = 0 THEN here
      ELSE here \o ApmCollect(n, Shr(idx, 1))

\* an apmByPrefix that does not sort its result
apmByPrefix_Unsorted(n, octet, bits) ==
  IF Len(n.prefixes) = 0 THEN <<>>
  ELSE ApmCollect(n, prefixToBaseIndex(octet, bits))

\* apmByPrefix: all matching base indexes of the node, in ascending order
apmByPrefix(n, octet, bits) ==
  IF Len(n.prefixes) = 0 THEN <<>>
  ELSE slicesSort(ApmCollect(n, prefixToBaseIndex(octet, bits)))

allStrideIndexes(n) == Ascending(n.prefixesBitset)

childRank(n, octet) == Rank(n.childrenBitset, octet) - 1

insertChild(n, octet, child) ==
  IF Test(n.childrenBitset, octet)
  THEN [n EXCEPT !.children = Put(@, childRank(n, octet), child)]
  ELSE LET m == [n EXCEPT !.childrenBitset = @ \cup {octet}]
       IN  [m EXCEPT !.children = SliceInsert(@, childRank(m, octet), child)]

getChild(n, octet) ==
  IF ~Test(n.childrenBitset, octet) THEN NIL ELSE At(n.children, childRank(n, octet))

allChildAddrs(n) == Ascending(n.childrenBitset)

\* a deleteChild that clears the bit before it takes the rank
deleteChild_ClearsFirst(n, octet) ==
  IF ~Test(n.childrenBitset, octet) THEN n
  ELSE LET m   == [n EXCEPT !.childrenBitset = @ \ {octet}]
           rnk == childRank(m, octet)
       IN  [m EXCEPT !.children = SliceDelete(@, rnk, rnk + 1)]

deleteChild(n, octet) ==
  IF ~Test(n.childrenBitset, octet) THEN n
  ELSE LET rnk == childRank(n, octet)
       IN  [n EXCEPT !.children = SliceDelete(@, rnk, rnk + 1),
                     !.childrenBitset = @ \ {octet}]

(***************************************************************************)
(* Prefixes and addresses the operations draw from.                        *)
(* A prefix is [is4, octets, bits] in canonical (masked) form, an address  *)
(* is [is4, octets].                                                       *)
(***************************************************************************)
V4(a, b, c, d) == <<a, b, c, d>>
V6(a, b) == <<a, b, 0, 0, 0, 0, 0, 0, 0, 0, 0, 0, 0, 0, 0, 0>>

Pfx(is4, octets, bits) == [is4 |-> is4, octets |-> octets, bits |-> bits]
Addr(is4, octets) == [is4 |-> is4, octets |-> octets]

PfxList ==
  << Pfx(TRUE,  V4(10, 1, 0, 0), 16),
     Pfx(TRUE,  V4(10, 2, 0, 0), 15),
     Pfx(TRUE,  V4(10, 0, 0, 0), 8),
     Pfx(TRUE,  V4(10, 0, 0, 0), 7),
     Pfx(TRUE,  V4(0, 0, 0, 0), 0),
     Pfx(FALSE, V6(10, 0), 8),
     Pfx(TRUE,  V4(10, 1, 2, 0), 24),
     Pfx(TRUE,  V4(10, 1, 2, 3), 32) >>

\* the prefixes of SpecLpm: routes of the root node, one in the chain of
\* the next
PfxListLpm ==
  << Pfx(TRUE,  V4(0, 0, 0, 0), 0),
     Pfx(TRUE,  V4(10, 0, 0, 0), 7),
     Pfx(TRUE,  V4(10, 0, 0, 0), 8),
     Pfx(TRUE,  V4(11, 0, 0, 0), 8) >>

\* the prefixes of SpecNq: two routes and two children of the root node,
\* and the default route
PfxListNq ==
  << Pfx(TRUE,  V4(10, 0, 0, 0), 7),
     Pfx(TRUE,  V4(10, 1, 0, 0), 16),
     Pfx(TRUE,  V4(11, 0, 0, 0), 8),
     Pfx(TRUE,  V4(12, 1, 0, 0), 16),
     Pfx(TRUE,  V4(0, 0, 0, 0), 0) >>

\* the octets the queries on a node draw from; a query prefix is the octet
\* with its low 8 - len bits cleared, o - o % 2^(8 - len)
QueryOctets == {0, 8, 10, 11, 12, 13}

\* the prefixes of SpecPc: two children of the root node, the first with
\* two routes
PfxListPc ==
  << Pfx(TRUE,  V4(10, 1, 0, 0), 16),
     Pfx(TRUE,  V4(12, 1, 0, 0), 16),
     Pfx(TRUE,  V4(10, 2, 0, 0), 15),
     Pfx(TRUE,  V4(12, 0, 0, 0), 7) >>

\* the prefixes of the read operations: two routes and two children in the
\* root node, a route with a larger address and a shorter length than
\* another, a child below a child
PfxListRd ==
  << Pfx(TRUE,  V4(10, 1, 0, 0), 16),
     Pfx(TRUE,  V4(12, 0, 0, 0), 7),
     Pfx(TRUE,  V4(10, 0, 0, 0), 8),
     Pfx(TRUE,  V4(12, 1, 0, 0), 16),
     Pfx(TRUE,  V4(10, 1, 2, 0), 24),
     Pfx(TRUE,  V4(0, 0, 0, 0), 0) >>

Addrs ==
  { Addr(TRUE, V4(10, 1, 2, 3)), Addr(TRUE, V4(10, 1, 2, 4)),
    Addr(TRUE, V4(10, 3, 0, 1)), Addr(TRUE, V4(10, 9, 0, 1)),
    Addr(TRUE, V4(11, 0, 0, 1)), Addr(TRUE, V4(12, 0, 0, 1)),
    Addr(FALSE, V6(10, 1)), Addr(FALSE, V6(11, 1)) }

Vals == 1..MaxVal
Tables == {"A", "B"}

(***************************************************************************)
(* The heap of nodes.  A node address is <<table, is4, path>>: the table   *)
(* and the octet path for which the node was allocated.  newNode() for    *)
(* the child of a node at an octet returns the address of that name; no   *)
(* live node has it when it is allocated (OwnNodes below).                 *)
(***************************************************************************)
Root(t, is4) == <<t, is4, <<>>>>

\* the address newNode() returns for the child of node id at octet
ChildAddr(id, octet) == <<id[1], id[2], Append(id[3], octet)>>

Alloc(h, id, n) == (id :> n) @@ h

\* the nodes reachable from node id, id included
RECURSIVE Reach(_, _)
Reach(h, id) ==
  {id} \cup UNION {Reach(h, h[id].children[i]) : i \in 1..Len(h[id].children)}

TableNodes(h, t) == Reach(h, Root(t, TRUE)) \cup Reach(h, Root(t, FALSE))

(***************************************************************************)
(* Table operations: the descent through the strides.                      *)
(***************************************************************************)
\* the stride in which a prefix of length bits ends, and its length there
lastDepth(bits) == IF bits > 0 THEN (bits - 1) \div strideLen ELSE 0
lenInStride(bits) == bits - lastDepth(bits) * strideLen

\* Insert: descend to the last stride, creating missing children
RECURSIVE InsertRec(_, _, _, _, _)
InsertRec(h, id, p, d, val) ==
  LET octet == p.octets[d + 1]
  IN  IF d = lastDepth(p.bits)
      THEN [h EXCEPT ![id] = insertPrefix(@, octet, lenInStride(p.bits), val)]
      ELSE LET c == getChild(h[id], octet)
           IN  IF c = NIL
               THEN LET new == ChildAddr(id, octet)
                    IN  InsertRec(Alloc([h EXCEPT ![id] = insertChild(@, octet, new)],
                                        new, newNode),
                                  new, p, d + 1, val)
               ELSE InsertRec(h, c, p, d + 1, val)

TableInsert(h, t, p, val) == InsertRec(h, Root(t, p.is4), p, 0, val)

\* Update: as Insert, with updatePrefix in the last stride; [heap, val]
RECURSIVE UpdateRec(_, _, _, _, _)
UpdateRec(h, id, p, d, cb) ==
  LET octet == p.octets[d + 1]
  IN  IF d = lastDepth(p.bits)
      THEN LET r == updatePrefix(h[id], octet, lenInStride(p.bits), cb)
           IN  [heap |-> [h EXCEPT ![id] = r.node], val |-> r.val, calls |-> r.calls]
      ELSE LET c == getChild(h[id], octet)
           IN  IF c = NIL
               THEN LET new == ChildAddr(id, octet)
                    IN  UpdateRec(Alloc([h EXCEPT ![id] = insertChild(@, octet, new)],
                                        new, newNode),
                                  new, p, d + 1, cb)
               ELSE UpdateRec(h, c, p, d + 1, cb)

TableUpdate(h, t, p, cb) == UpdateRec(h, Root(t, p.is4), p, 0, cb)

\* Delete: descend exactly; [heap, wasPresent]
RECURSIVE DeleteRec(_, _, _, _)
DeleteRec(h, id, p, d) ==
  LET octet == p.octets[d + 1]
  IN  IF d = lastDepth(p.bits)
      THEN LET r == deletePrefix(h[id], octet, lenInStride(p.bits))
           IN  [heap |-> [h EXCEPT ![id] = r.node], wasPresent |-> r.wasPresent]
      ELSE LET c == getChild(h[id], octet)
           IN  IF c = NIL
               THEN [heap |-> h, wasPresent |-> FALSE]
               ELSE DeleteRec(h, c, p, d + 1)

TableDelete(h, t, p) == DeleteRec(h, Root(t, p.is4), p, 0)

\* Get: descend exactly; <<val, ok>>
RECURSIVE GetRec(_, _, _, _)
GetRec(h, id, p, d) ==
  LET octet == p.octets[d + 1]
  IN  IF d = lastDepth(p.bits)
      THEN getValByPrefix(h[id], octet, lenInStride(p.bits))
      ELSE LET c == getChild(h[id], octet)
           IN  IF c = NIL THEN <<ZeroVal, FALSE>> ELSE GetRec(h, c, p, d + 1)

TableGet(h, t, p) == GetRec(h, Root(t, p.is4), p, 0)

\* Lookup: the deepest stride match on the way down; <<val, ok>>
RECURSIVE LookupRec(_, _, _, _, _)
LookupRec(h, id, a, d, best) ==
  LET octet == a.octets[d + 1]
      r     == lpmByOctet(h[id], octet)
      found == IF r[3] THEN <<r[2], TRUE>> ELSE best
      c     == getChild(h[id], octet)
  IN  IF c = NIL \/ d + 1 = Len(a.octets) THEN found
      ELSE LookupRec(h, c, a, d + 1, found)

TableLookup(h, t, a) == LookupRec(h, Root(t, a.is4), a, 0, <<ZeroVal, FALSE>>)

\* Contains: true at the first stride with a match on the way down
RECURSIVE ContainsRec(_, _, _, _)
ContainsRec(h, id, a, d) ==
  LET octet == a.octets[d + 1]
      c     == getChild(h[id], octet)
  IN  IF lpmByOctet(h[id], octet)[3] THEN TRUE
      ELSE IF c = NIL \/ d + 1 = Len(a.octets) THEN FALSE
      ELSE ContainsRec(h, c, a, d + 1)

TableContains(h, t, a) == ContainsRec(h, Root(t, a.is4), a, 0)

\* cidrFromPath: the CIDR of base index idx in the node at path
cidrFromPath(path, idx, is4) ==
  LET octet  == baseIndexToPrefix(idx)[1]
      pfxLen == baseIndexToPrefix(idx)[2]
      full   == Append(path, octet)
      n      == IF is4 THEN 4 ELSE 16
  IN  Pfx(is4, [i \in 1..n |-> IF i <= Len(full) THEN full[i] ELSE 0],
          Len(path) * strideLen + pfxLen)

NoPfx == Pfx(TRUE, V4(0, 0, 0, 0), -1)

\* LookupPrefixLPM: as Lookup, the last stride's LPM starts at the prefix's
\* base index and the descent stops there; <<lpm, val, ok>>
RECURSIVE LookupPrefixRec(_, _, _, _, _)
LookupPrefixRec(h, id, p, d, best) ==
  LET octet == p.octets[d + 1]
      path  == SubSeq(p.octets, 1, d)
  IN  IF d = lastDepth(p.bits)
      THEN LET r == lpmByPrefix(h[id], octet, lenInStride(p.bits))
           IN  IF r[3] THEN <<cidrFromPath(path, r[1], p.is4), r[2], TRUE>> ELSE best
      ELSE LET r     == lpmByOctet(h[id], octet)
               found == IF r[3] THEN <<cidrFromPath(path, r[1], p.is4), r[2], TRUE>>
                        ELSE best
               c     == getChild(h[id], octet)
           IN  IF c = NIL THEN found ELSE LookupPrefixRec(h, c, p, d + 1, found)

TableLookupPrefixLPM(h, t, p) ==
  LookupPrefixRec(h, Root(t, p.is4), p, 0, <<NoPfx, ZeroVal, FALSE>>)

TableLookupPrefix(h, t, p) ==
  LET r == TableLookupPrefixLPM(h, t, p) IN <<r[2], r[3]>>

(***************************************************************************)
(* Go slices.  A []byte the caller hands over is its elements and the      *)
(* spare cells of its backing array beyond its length, which an append     *)
(* without reallocation writes to.                                         *)
(***************************************************************************)
Slice(elems, spare) == [elems |-> elems, spare |-> spare]

nilSlice == Slice(<<>>, <<>>)

\* slices.Clone: the same elements in a new backing array
slicesClone(s) == Slice(s.elems, <<>>)

\* append(s, x): the resulting slice, and the cells of s afterwards
append(s, x) ==
  IF s.spare = <<>>
  THEN [new |-> Slice(Append(s.elems, x), <<>>), old |-> s]
  ELSE [new |-> Slice(Append(s.elems, x), Tail(s.spare)),
        old |-> Slice(s.elems, <<x>> \o Tail(s.spare))]

(***************************************************************************)
(* node.go: walkRec.  The callback cb is a function from CIDRs to the      *)
(* error it returns for them, nilErr where it has no entry; the result is  *)
(* [out, err, path]: the sequence of callback invocations <<cidr, val>>,   *)
(* the error that came back, and the cells of the caller's path            *)
(* afterwards.                                                             *)
(***************************************************************************)
nilErr == 0

NeverErr == <<>>

CallCb(cb, pfx, val) == IF pfx \in DOMAIN cb THEN cb[pfx] ELSE nilErr

RECURSIVE WalkPrefixes(_, _, _, _, _)
WalkPrefixes(n, path, is4, cb, idxs) ==
  IF idxs = <<>> THEN [out |-> <<>>, err |-> nilErr]
  ELSE LET idx == Head(idxs)
           val == getValByIndex(n, idx)[1]
           pfx == cidrFromPath(path.elems, idx, is4)
           err == CallCb(cb, pfx, val)
       IN  IF err # nilErr THEN [out |-> <<<<pfx, val>>>>, err |-> err]
           ELSE LET rest == WalkPrefixes(n, path, is4, cb, Tail(idxs))
                IN  [out |-> <<<<pfx, val>>>> \o rest.out, err |-> rest.err]

\* a walkRec that does not descend to the children
walkRec_NoChildren(h, id, path, is4, cb) ==
  LET own == WalkPrefixes(h[id], path, is4, cb, allStrideIndexes(h[id]))
  IN  [out |-> own.out, err |-> own.err, path |-> path]

RECURSIVE walkRec(_, _, _, _, _)

\* a child loop that goes on with the next child after an error, and
\* returns the error of the last child that had one
RECURSIVE WalkChildren_GoesOn(_, _, _, _, _, _)
WalkChildren_GoesOn(h, id, path, is4, cb, addrs) ==
  IF addrs = <<>> THEN [out |-> <<>>, err |-> nilErr, path |-> path]
  ELSE LET octet == Head(addrs)
           sub   == walkRec(h, getChild(h[id], octet),
                            append(slicesClone(path), octet).new, is4, cb)
           rest  == WalkChildren_GoesOn(h, id, path, is4, cb, Tail(addrs))
       IN  [out  |-> sub.out \o rest.out,
            err  |-> IF rest.err # nilErr THEN rest.err ELSE sub.err,
            path |-> rest.path]

\* a child loop that appends the octet to the caller's path itself
RECURSIVE WalkChildren_NoClone(_, _, _, _, _, _)
WalkChildren_NoClone(h, id, path, is4, cb, addrs) ==
  IF addrs = <<>> THEN [out |-> <<>>, err |-> nilErr, path |-> path]
  ELSE LET octet == Head(addrs)
           a     == append(path, octet)
           sub   == walkRec(h, getChild(h[id], octet), a.new, is4, cb)
           after == IF path.spare = <<>> THEN a.old
                    ELSE Slice(path.elems, <<octet>> \o sub.path.spare)
       IN  IF sub.err # nilErr THEN [out |-> sub.out, err |-> sub.err, path |-> after]
           ELSE LET rest == WalkChildren_NoClone(h, id, after, is4, cb, Tail(addrs))
                IN  [out |-> sub.out \o rest.out, err |-> rest.err, path |-> rest.path]

RECURSIVE WalkChildren(_, _, _, _, _, _)
WalkChildren(h, id, path, is4, cb, addrs) ==
  IF addrs = <<>> THEN [out |-> <<>>, err |-> nilErr, path |-> path]
  ELSE LET octet == Head(addrs)
           sub   == walkRec(h, getChild(h[id], octet),
                            append(slicesClone(path), octet).new, is4, cb)
       IN  IF sub.err # nilErr THEN [out |-> sub.out, err |-> sub.err, path |-> path]
           ELSE LET rest == WalkChildren(h, id, path, is4, cb, Tail(addrs))
                IN  [out |-> sub.out \o rest.out, err |-> rest.err, path |-> rest.path]

\* a walkRec that visits the children of a node before its prefixes
walkRec_ChildrenFirst(h, id, path, is4, cb) ==
  LET sub == WalkChildren(h, id, path, is4, cb, allChildAddrs(h[id]))
  IN  IF sub.err # nilErr THEN [out |-> sub.out, err |-> sub.err, path |-> sub.path]
      ELSE LET own == WalkPrefixes(h[id], path, is4, cb, allStrideIndexes(h[id]))
           IN  [out |-> sub.out \o own.out, err |-> own.err, path |-> sub.path]

walkRec(h, id, path, is4, cb) ==
  LET own == WalkPrefixes(h[id], path, is4, cb, allStrideIndexes(h[id]))
  IN  IF own.err # nilErr THEN [out |-> own.out, err |-> own.err, path |-> path]
      ELSE LET sub == WalkChildren(h, id, path, is4, cb, allChildAddrs(h[id]))
           IN  [out |-> own.out \o sub.out, err |-> sub.err, path |-> sub.path]

\* Walk: the IPv4 trie, then the IPv6 trie
TableWalk(h, t, cb) ==
  LET w4 == walkRec(h, Root(t, TRUE), nilSlice, TRUE, cb)
  IN  IF w4.err # nilErr THEN [out |-> w4.out, err |-> w4.err]
      ELSE LET w6 == walkRec(h, Root(t, FALSE), nilSlice, FALSE, cb)
           IN  [out |-> w4.out \o w6.out, err |-> w6.err]

(***************************************************************************)
(* node.go: subnets.  The result is [result, path]: the CIDRs in the       *)
(* order of their discovery, and the cells of the caller's path            *)
(* afterwards.                                                             *)
(***************************************************************************)
\* for i := idx; i >= parentIdx; i >>= 1 { if i == parentIdx { ...; break } }
RECURSIVE SubnetsMatch(_, _)
SubnetsMatch(i, parentIdx) ==
  IF i < parentIdx THEN FALSE
  ELSE IF i = parentIdx THEN TRUE
  ELSE SubnetsMatch(Shr(i, 1), parentIdx)

\* the same loop without the break: the number of its matches, for a
\* parentIdx of 1 and more (with parentIdx = 0 the loop does not end)
RECURSIVE SubnetsMatches(_, _)
SubnetsMatches(i, parentIdx) ==
  IF i < parentIdx THEN 0
  ELSE (IF i = parentIdx THEN 1 ELSE 0) + SubnetsMatches(Shr(i, 1), parentIdx)

RECURSIVE SubnetsPrefixes(_, _, _, _)
SubnetsPrefixes(path, parentIdx, is4, idxs) ==
  IF idxs = <<>> THEN <<>>
  ELSE LET idx  == Head(idxs)
           rest == SubnetsPrefixes(path, parentIdx, is4, Tail(idxs))
       IN  IF SubnetsMatch(idx, parentIdx)
           THEN <<cidrFromPath(path.elems, idx, is4)>> \o rest
           ELSE rest

\* the callback of subnets: appends the CIDR to the result, returns nil
CollectCidrs(out) == [i \in 1..Len(out) |-> out[i][1]]

RECURSIVE Repeat(_, _)
Repeat(seq, k) == IF k = 0 THEN <<>> ELSE seq \o Repeat(seq, k - 1)

\* a child loop of subnets that walks every child, covered or not
RECURSIVE SubnetsChildren_All(_, _, _, _, _, _)
SubnetsChildren_All(h, id, path, parentIdx, is4, addrs) ==
  IF addrs = <<>> THEN [result |-> <<>>, path |-> path]
  ELSE LET octet == Head(addrs)
           sub   == walkRec(h, getChild(h[id], octet),
                            append(slicesClone(path), octet).new, is4, NeverErr)
           rest  == SubnetsChildren_All(h, id, path, parentIdx, is4, Tail(addrs))
       IN  [result |-> CollectCidrs(sub.out) \o rest.result, path |-> rest.path]

RECURSIVE SubnetsChildren(_, _, _, _, _, _)
SubnetsChildren(h, id, path, parentIdx, is4, addrs) ==
  IF addrs = <<>> THEN [result |-> <<>>, path |-> path]
  ELSE LET octet == Head(addrs)
           idx   == octetToBaseIndex(octet)
           k     == SubnetsMatches(idx, parentIdx)
           sub   == walkRec(h, getChild(h[id], octet),
                            append(slicesClone(path), octet).new, is4, NeverErr)
           rest  == SubnetsChildren(h, id, path, parentIdx, is4, Tail(addrs))
       IN  [result |-> (IF k = 0 THEN <<>> ELSE Repeat(CollectCidrs(sub.out), k))
                       \o rest.result,
            path   |-> rest.path]

subnets(h, id, path, parentIdx, is4) ==
  LET own == SubnetsPrefixes(path, parentIdx, is4, allStrideIndexes(h[id]))
      sub == SubnetsChildren(h, id, path, parentIdx, is4, allChildAddrs(h[id]))
  IN  [result |-> own \o sub.result, path |-> sub.path]

\* cmpPrefix: netip.Addr.Compare (IPv4 before IPv6, then the octets from the
\* left), then the prefix lengths
RECURSIVE OctetsCompare(_, _, _)
OctetsCompare(a, b, i) ==
  IF i > Len(a) THEN 0
  ELSE IF a[i] < b[i] THEN -1
  ELSE IF a[i] > b[i] THEN 1
  ELSE OctetsCompare(a, b, i + 1)

AddrCompare(a, b) ==
  IF a.is4 /\ ~b.is4 THEN -1
  ELSE IF ~a.is4 /\ b.is4 THEN 1
  ELSE OctetsCompare(a.octets, b.octets, 1)

IntCompare(x, y) == IF x < y THEN -1 ELSE IF x > y THEN 1 ELSE 0

\* a cmpPrefix that compares the prefix lengths first
cmpPrefix_BitsFirst(a, b) ==
  IF IntCompare(a.bits, b.bits) # 0 THEN IntCompare(a.bits, b.bits)
  ELSE AddrCompare(a, b)

cmpPrefix(a, b) ==
  IF AddrCompare(a, b) # 0 THEN AddrCompare(a, b)
  ELSE IntCompare(a.bits, b.bits)

\* slices.SortFunc(result, cmpPrefix)
RECURSIVE SortInsert(_, _)
SortInsert(sorted, x) ==
  IF sorted = <<>> THEN <<x>>
  ELSE IF cmpPrefix(x, Head(sorted)) < 0 THEN <<x>> \o sorted
  ELSE <<Head(sorted)>> \o SortInsert(Tail(sorted), x)

RECURSIVE SortFunc(_)
SortFunc(seq) ==
  IF seq = <<>> THEN <<>>
  ELSE SortInsert(SortFunc(SubSeq(seq, 1, Len(seq) - 1)), seq[Len(seq)])

\* Subnets: the descent to the node of the prefix's last stride, subnets
\* there with the octets before it as path, and the sort
RECURSIVE SubnetsRec(_, _, _, _)
SubnetsRec(h, id, p, d) ==
  LET octet == p.octets[d + 1]
  IN  IF d = lastDepth(p.bits)
      THEN subnets(h, id,
                   Slice(SubSeq(p.octets, 1, d), SubSeq(p.octets, d + 1, Len(p.octets))),
                   prefixToBaseIndex(octet, lenInStride(p.bits)), p.is4).result
      ELSE LET c == getChild(h[id], octet)
           IN  IF c = NIL THEN <<>> ELSE SubnetsRec(h, c, p, d + 1)

TableSubnets(h, t, p) == SortFunc(SubnetsRec(h, Root(t, p.is4), p, 0))

(***************************************************************************)
(* node.go: overlapsRec.  An allotment array [512]bool is the set of its   *)
(* true entries.                                                           *)
(***************************************************************************)
HostRange(idx) == lowerUpperBound(idx)[1] .. lowerUpperBound(idx)[2]

\* 1. the zig-zag over the routes of both nodes: [hit, nAllot, oAllot]
RECURSIVE ZigZagRoutes(_, _, _, _, _, _, _, _)
ZigZagRoutes(n, o, nIdx, nOk, oIdx, oOk, nAllot, oAllot) ==
  LET nNext == IF nOk THEN NextSet(n.prefixesBitset, nIdx) ELSE <<nIdx, FALSE>>
      nOk1  == nNext[2]
      nHit  == nOk1 /\ HostRange(nNext[1]) \cap oAllot # {}
      nAll1 == IF nOk1 THEN nAllot \cup HostRange(nNext[1]) ELSE nAllot
      nIdx1 == IF nOk1 THEN nNext[1] + 1 ELSE nNext[1]
      oNext == IF oOk THEN NextSet(o.prefixesBitset, oIdx) ELSE <<oIdx, FALSE>>
      oOk1  == oNext[2]
      oHit  == oOk1 /\ HostRange(oNext[1]) \cap nAll1 # {}
      oAll1 == IF oOk1 THEN oAllot \cup HostRange(oNext[1]) ELSE oAllot
      oIdx1 == IF oOk1 THEN oNext[1] + 1 ELSE oNext[1]
  IN  IF nHit THEN [hit |-> TRUE, nAllot |-> nAllot, oAllot |-> oAllot]
      ELSE IF oHit THEN [hit |-> TRUE, nAllot |-> nAll1, oAllot |-> oAllot]
      ELSE IF ~nOk1 /\ ~oOk1 THEN [hit |-> FALSE, nAllot |-> nAll1, oAllot |-> oAll1]
      ELSE ZigZagRoutes(n, o, nIdx1, nOk1, oIdx1, oOk1, nAll1, oAll1)

\* a zig-zag over the children that tests the children of n against the
\* routes of o, and not the children of o against the routes of n
RECURSIVE ZigZagChildren_OneSided(_, _, _, _, _, _, _, _, _, _)
ZigZagChildren_OneSided(n, o, nOctet, nOk, oOctet, oOk, nOctets, oOctets, nAllot, oAllot) ==
  LET nNext == IF nOk THEN NextSet(n.childrenBitset, nOctet) ELSE <<nOctet, FALSE>>
      nOk1  == nNext[2]
      nHit  == nOk1 /\ (nNext[1] + firstHostIndex) \in oAllot
      nOct1 == IF nOk1 THEN nOctets \cup {nNext[1]} ELSE nOctets
      nNxt1 == IF nOk1 THEN nNext[1] + 1 ELSE nNext[1]
      oNext == IF oOk THEN NextSet(o.childrenBitset, oOctet) ELSE <<oOctet, FALSE>>
      oOk1  == oNext[2]
      oOct1 == IF oOk1 THEN oOctets \cup {oNext[1]} ELSE oOctets
      oNxt1 == IF oOk1 THEN oNext[1] + 1 ELSE oNext[1]
  IN  IF nHit THEN [hit |-> TRUE, nOctets |-> nOct1, oOctets |-> oOct1]
      ELSE IF ~nOk1 /\ ~oOk1 THEN [hit |-> FALSE, nOctets |-> nOct1, oOctets |-> oOct1]
      ELSE ZigZagChildren_OneSided(n, o, nNxt1, nOk1, oNxt1, oOk1, nOct1, oOct1,
                                   nAllot, oAllot)

\* 2. the zig-zag over the children of both nodes: [hit, nOctets, oOctets]
RECURSIVE ZigZagChildren(_, _, _, _, _, _, _, _, _, _)
ZigZagChildren(n, o, nOctet, nOk, oOctet, oOk, nOctets, oOctets, nAllot, oAllot) ==
  LET nNext == IF nOk THEN NextSet(n.childrenBitset, nOctet) ELSE <<nOctet, FALSE>>
      nOk1  == nNext[2]
      nHit  == nOk1 /\ (nNext[1] + firstHostIndex) \in oAllot
      nOct1 == IF nOk1 THEN nOctets \cup {nNext[1]} ELSE nOctets
      nNxt1 == IF nOk1 THEN nNext[1] + 1 ELSE nNext[1]
      oNext == IF oOk THEN NextSet(o.childrenBitset, oOctet) ELSE <<oOctet, FALSE>>
      oOk1  == oNext[2]
      oHit  == oOk1 /\ (oNext[1] + firstHostIndex) \in nAllot
      oOct1 == IF oOk1 THEN oOctets \cup {oNext[1]} ELSE oOctets
      oNxt1 == IF oOk1 THEN oNext[1] + 1 ELSE oNext[1]
  IN  IF nHit \/ oHit THEN [hit |-> TRUE, nOctets |-> nOct1, oOctets |-> oOct1]
      ELSE IF ~nOk1 /\ ~oOk1 THEN [hit |-> FALSE, nOctets |-> nOct1, oOctets |-> oOct1]
      ELSE ZigZagChildren(n, o, nNxt1, nOk1, oNxt1, oOk1, nOct1, oOct1, nAllot, oAllot)

\* an overlapsRec without step 3, the descent to the children with the
\* same octet
overlapsRec_NoDescent(h, nId, oId) ==
  LET n  == h[nId]
      o  == h[oId]
      zr == ZigZagRoutes(n, o, 0, Len(n.prefixes) > 0, 0, Len(o.prefixes) > 0, {}, {})
      full == /\ Len(n.prefixes) > 0
              /\ Len(o.prefixes) > 0
              /\ \E i \in firstHostIndex..lastHostIndex : i \in zr.nAllot /\ i \in zr.oAllot
      zc == ZigZagChildren(n, o, 0, Len(n.children) > 0, 0, Len(o.children) > 0,
                           {}, {}, zr.nAllot, zr.oAllot)
  IN  zr.hit \/ full \/ zc.hit

RECURSIVE overlapsRec(_, _, _)
overlapsRec(h, nId, oId) ==
  LET n  == h[nId]
      o  == h[oId]
      zr == ZigZagRoutes(n, o, 0, Len(n.prefixes) > 0, 0, Len(o.prefixes) > 0, {}, {})
      full == /\ Len(n.prefixes) > 0
              /\ Len(o.prefixes) > 0
              /\ \E i \in firstHostIndex..lastHostIndex : i \in zr.nAllot /\ i \in zr.oAllot
      zc == ZigZagChildren(n, o, 0, Len(n.children) > 0, 0, Len(o.children) > 0,
                           {}, {}, zr.nAllot, zr.oAllot)
  IN  IF zr.hit THEN TRUE
      ELSE IF full THEN TRUE
      ELSE IF zc.hit THEN TRUE
      ELSE /\ Len(n.children) > 0
           /\ Len(o.children) > 0
           /\ \E i \in 0..(maxNodeChildren - 1) :
                /\ i \in zc.nOctets
                /\ i \in zc.oOctets
                /\ overlapsRec(h, getChild(n, i), getChild(o, i))

TableOverlaps(h, t, u) ==
  \/ overlapsRec(h, Root(t, TRUE), Root(u, TRUE))
  \/ overlapsRec(h, Root(t, FALSE), Root(u, FALSE))

(***************************************************************************)
(* node.go: overlapsPrefix                                                 *)
(***************************************************************************)
\* lastHostIndexOfPrefix: the host index of octet | hostMask(len)
lastHostIndexOfPrefix(octet, pfxLen) ==
  octetToBaseIndex(Or8(octet, hostMasks[pfxLen + 1]))

\* a route loop that takes every route from pfxIdx << 1 on as an overlap
OverlapsPrefixRoutes_NoBounds(n, routeIdx, pfxLowerBound, pfxUpperBound) ==
  NextSet(n.prefixesBitset, routeIdx)[2]

\* 2. the loop over the routes from routeIdx on: does the host range of one
\* fall inside pfxLowerBound..pfxUpperBound
RECURSIVE OverlapsPrefixRoutes(_, _, _, _)
OverlapsPrefixRoutes(n, routeIdx, pfxLowerBound, pfxUpperBound) ==
  LET next == NextSet(n.prefixesBitset, routeIdx)
  IN  IF ~next[2] THEN FALSE
      ELSE LET routeLowerBound == lowerUpperBound(next[1])[1]
               routeUpperBound == lowerUpperBound(next[1])[2]
           IN  IF routeLowerBound >= pfxLowerBound /\ routeUpperBound <= pfxUpperBound
                 THEN TRUE
                 ELSE OverlapsPrefixRoutes(n, next[1] + 1, pfxLowerBound, pfxUpperBound)

\* 3. the loop over the children from childOctet on: is the host index of
\* one inside pfxLowerBound..pfxUpperBound
RECURSIVE OverlapsPrefixChildren(_, _, _, _)
OverlapsPrefixChildren(n, childOctet, pfxLowerBound, pfxUpperBound) ==
  LET next == NextSet(n.childrenBitset, childOctet)
  IN  IF ~next[2] THEN FALSE
      ELSE LET childIdx == next[1] + firstHostIndex
           IN  IF childIdx >= pfxLowerBound /\ childIdx <= pfxUpperBound
                 THEN TRUE
                 ELSE OverlapsPrefixChildren(n, next[1] + 1, pfxLowerBound, pfxUpperBound)

overlapsPrefix(n, octet, pfxLen) ==
  LET pfxIdx        == prefixToBaseIndex(octet, pfxLen)
      pfxLowerBound == octet + firstHostIndex
      pfxUpperBound == lastHostIndexOfPrefix(octet, pfxLen)
  IN  IF lpmByIndex(n, pfxIdx)[3] THEN TRUE
      ELSE IF OverlapsPrefixRoutes(n, Shl(pfxIdx, 1), pfxLowerBound, pfxUpperBound) THEN TRUE
      ELSE OverlapsPrefixChildren(n, octet, pfxLowerBound, pfxUpperBound)

(***************************************************************************)
(* node.go: the loops of the node operations, one round at a time.  A      *)
(* round gives the loop variables after it and whether the loop has been   *)
(* left.                                                                   *)
(***************************************************************************)
\* a round of the loop of lpmByIndex without the test for idx == 0
LpmRound_NoZeroTest(n, idx) ==
  IF Test(n.prefixesBitset, idx) THEN [v |-> [idx |-> idx], exit |-> TRUE]
  ELSE [v |-> [idx |-> Shr(idx, 1)], exit |-> FALSE]

\* lpmByIndex: for { if Test(idx) { return }; if idx == 0 { break }; idx >>= 1 }
LpmRound(n, idx) ==
  IF Test(n.prefixesBitset, idx) THEN [v |-> [idx |-> idx], exit |-> TRUE]
  ELSE IF idx = 0 THEN [v |-> [idx |-> idx], exit |-> TRUE]
  ELSE [v |-> [idx |-> Shr(idx, 1)], exit |-> FALSE]

\* apmByPrefix: for { if Test(idx) { append }; if idx == 0 { break }; idx >>= 1 }
ApmRound(n, idx) ==
  IF idx = 0 THEN [v |-> [idx |-> idx], exit |-> TRUE]
  ELSE [v |-> [idx |-> Shr(idx, 1)], exit |-> FALSE]

\* subnets, routes: for i := idx; i >= parentIdx; i >>= 1 { if i == parentIdx { break } }
SubnetsRouteRound(i, parentIdx) ==
  IF ~(i >= parentIdx) THEN [v |-> [i |-> i], exit |-> TRUE]
  ELSE IF i = parentIdx THEN [v |-> [i |-> i], exit |-> TRUE]
  ELSE [v |-> [i |-> Shr(i, 1)], exit |-> FALSE]

\* subnets, children: for i := idx; i >= parentIdx; i >>= 1 { if i == parentIdx { walk } }
SubnetsChildRound(i, parentIdx) ==
  IF ~(i >= parentIdx) THEN [v |-> [i |-> i], exit |-> TRUE]
  ELSE [v |-> [i |-> Shr(i, 1)], exit |-> FALSE]

\* overlapsPrefix, routes: for { routeIdx, ok = NextSet(routeIdx); if !ok { break };
\* if inside { return true }; routeIdx++ }
OverlapsPrefixRoutesRound(n, routeIdx, pfxLowerBound, pfxUpperBound) ==
  LET next == NextSet(n.prefixesBitset, routeIdx)
  IN  IF ~next[2] THEN [v |-> [idx |-> next[1]], exit |-> TRUE]
      ELSE IF /\ lowerUpperBound(next[1])[1] >= pfxLowerBound
              /\ lowerUpperBound(next[1])[2] <= pfxUpperBound
        THEN [v |-> [idx |-> next[1]], exit |-> TRUE]
        ELSE [v |-> [idx |-> next[1] + 1], exit |-> FALSE]

\* overlapsPrefix, children: the same loop over childrenBitset
OverlapsPrefixChildrenRound(n, childOctet, pfxLowerBound, pfxUpperBound) ==
  LET next == NextSet(n.childrenBitset, childOctet)
  IN  IF ~next[2] THEN [v |-> [idx |-> next[1]], exit |-> TRUE]
      ELSE IF /\ next[1] + firstHostIndex >= pfxLowerBound
              /\ next[1] + firstHostIndex <= pfxUpperBound
        THEN [v |-> [idx |-> next[1]], exit |-> TRUE]
        ELSE [v |-> [idx |-> next[1] + 1], exit |-> FALSE]

\* unionRec, routes: for { oIdx, oOk = NextSet(oIdx); if !oOk { break }; ...; oIdx++ }
UnionRoutesRound(o, oIdx) ==
  LET next == NextSet(o.prefixesBitset, oIdx)
  IN  IF ~next[2] THEN [v |-> [idx |-> next[1]], exit |-> TRUE]
      ELSE [v |-> [idx |-> next[1] + 1], exit |-> FALSE]

\* unionRec, children: the same loop over childrenBitset
UnionChildrenRound(o, oOctet) ==
  LET next == NextSet(o.childrenBitset, oOctet)
  IN  IF ~next[2] THEN [v |-> [idx |-> next[1]], exit |-> TRUE]
      ELSE [v |-> [idx |-> next[1] + 1], exit |-> FALSE]

\* overlapsRec, 1. routes: one round of the zig-zag
ZigZagRoutesRound(n, o, z) ==
  LET nNext == IF z.nOk THEN NextSet(n.prefixesBitset, z.nIdx) ELSE <<z.nIdx, FALSE>>
      nOk1  == nNext[2]
      nHit  == nOk1 /\ HostRange(nNext[1]) \cap z.oAllot # {}
      nAll1 == IF nOk1 THEN z.nAllot \cup HostRange(nNext[1]) ELSE z.nAllot
      nIdx1 == IF nOk1 THEN nNext[1] + 1 ELSE nNext[1]
      oNext == IF z.oOk THEN NextSet(o.prefixesBitset, z.oIdx) ELSE <<z.oIdx, FALSE>>
      oOk1  == oNext[2]
      oHit  == oOk1 /\ HostRange(oNext[1]) \cap nAll1 # {}
      oAll1 == IF oOk1 THEN z.oAllot \cup HostRange(oNext[1]) ELSE z.oAllot
      oIdx1 == IF oOk1 THEN oNext[1] + 1 ELSE oNext[1]
  IN  IF nHit THEN [v |-> z, exit |-> TRUE]
      ELSE [v |-> [nIdx |-> nIdx1, nOk |-> nOk1, oIdx |-> oIdx1, oOk |-> oOk1,
                   nAllot |-> nAll1, oAllot |-> oAll1],
            exit |-> oHit \/ (~nOk1 /\ ~oOk1)]

\* overlapsRec, 2. children: one round of the zig-zag
ZigZagChildrenRound(n, o, z) ==
  LET nNext == IF z.nOk THEN NextSet(n.childrenBitset, z.nIdx) ELSE <<z.nIdx, FALSE>>
      nOk1  == nNext[2]
      nHit  == nOk1 /\ (nNext[1] + firstHostIndex) \in z.oAllot
      nIdx1 == IF nOk1 THEN nNext[1] + 1 ELSE nNext[1]
      oNext == IF z.oOk THEN NextSet(o.childrenBitset, z.oIdx) ELSE <<z.oIdx, FALSE>>
      oOk1  == oNext[2]
      oHit  == oOk1 /\ (oNext[1] + firstHostIndex) \in z.nAllot
      oIdx1 == IF oOk1 THEN oNext[1] + 1 ELSE oNext[1]
  IN  IF nHit THEN [v |-> z, exit |-> TRUE]
      ELSE [v |-> [nIdx |-> nIdx1, nOk |-> nOk1, oIdx |-> oIdx1, oOk |-> oOk1,
                   nAllot |-> z.nAllot, oAllot |-> z.oAllot],
            exit |-> oHit \/ (~nOk1 /\ ~oOk1)]

(***************************************************************************)
(* node.go: cloneRec and unionRec.  cloneRec(h, nId, cId) is the heap in   *)
(* which the clone of node nId has been allocated at address cId.          *)
(***************************************************************************)
\* a cloneRec that leaves the children slice a shallow copy
cloneRec_Shallow(h, nId, cId) ==
  IF isEmpty(h[nId]) THEN Alloc(h, cId, newNode)
  ELSE Alloc(h, cId, [prefixesBitset |-> h[nId].prefixesBitset,
                      prefixes       |-> h[nId].prefixes,
                      childrenBitset |-> h[nId].childrenBitset,
                      children       |-> h[nId].children])

RECURSIVE cloneRec(_, _, _)
RECURSIVE CloneChildren(_, _, _)
CloneChildren(h, cId, i) ==
  IF i > Len(h[cId].children) THEN h
  ELSE LET new == ChildAddr(cId, allChildAddrs(h[cId])[i])
           h1  == cloneRec(h, h[cId].children[i], new)
       IN  CloneChildren([h1 EXCEPT ![cId].children[i] = new], cId, i + 1)

cloneRec(h, nId, cId) ==
  IF isEmpty(h[nId]) THEN Alloc(h, cId, newNode)
  ELSE CloneChildren(Alloc(h, cId, [prefixesBitset |-> h[nId].prefixesBitset,
                                    prefixes       |-> h[nId].prefixes,
                                    childrenBitset |-> h[nId].childrenBitset,
                                    children       |-> h[nId].children]),
                     cId, 1)

\* a first loop of unionRec that keeps the value of n on a duplicate
RECURSIVE UnionRoutes_KeepOwn(_, _, _)
UnionRoutes_KeepOwn(n, o, oIdx) ==
  LET next == NextSet(o.prefixesBitset, oIdx)
  IN  IF ~next[2] THEN n
      ELSE IF Test(n.prefixesBitset, next[1])
      THEN UnionRoutes_KeepOwn(n, o, next[1] + 1)
      ELSE UnionRoutes_KeepOwn(insertIdx(n, next[1], getValByIndex(o, next[1])[1]),
                               o, next[1] + 1)

\* the first loop of unionRec: the routes of o go into n
RECURSIVE UnionRoutes(_, _, _)
UnionRoutes(n, o, oIdx) ==
  LET next == NextSet(o.prefixesBitset, oIdx)
  IN  IF ~next[2] THEN n
      ELSE UnionRoutes(insertIdx(n, next[1], getValByIndex(o, next[1])[1]), o, next[1] + 1)

RECURSIVE unionRec(_, _, _)
\* a child loop of unionRec that hands the child of o itself to n
RECURSIVE UnionChildren_NoClone(_, _, _, _)
UnionChildren_NoClone(h, nId, oId, oOctet) ==
  LET next  == NextSet(h[oId].childrenBitset, oOctet)
      oNode == getChild(h[oId], next[1])
      nNode == getChild(h[nId], next[1])
  IN  IF ~next[2] THEN h
      ELSE IF nNode = NIL
      THEN UnionChildren_NoClone([h EXCEPT ![nId] = insertChild(@, next[1], oNode)],
                                 nId, oId, next[1] + 1)
      ELSE UnionChildren_NoClone(unionRec(h, nNode, oNode), nId, oId, next[1] + 1)

RECURSIVE UnionChildren(_, _, _, _)
UnionChildren(h, nId, oId, oOctet) ==
  LET next  == NextSet(h[oId].childrenBitset, oOctet)
      oNode == getChild(h[oId], next[1])
      nNode == getChild(h[nId], next[1])
      new   == ChildAddr(nId, next[1])
  IN  IF ~next[2] THEN h
      ELSE IF nNode = NIL
      THEN UnionChildren([cloneRec(h, oNode, new) EXCEPT ![nId] = insertChild(@, next[1], new)],
                         nId, oId, next[1] + 1)
      ELSE UnionChildren(unionRec(h, nNode, oNode), nId, oId, next[1] + 1)

unionRec(h, nId, oId) ==
  UnionChildren([h EXCEPT ![nId] = UnionRoutes(@, h[oId], 0)], nId, oId, 0)

TableUnion(h, t, u) ==
  unionRec(unionRec(h, Root(t, TRUE), Root(u, TRUE)), Root(t, FALSE), Root(u, FALSE))

\* Clone: a new table whose roots are the clones of the roots of t; it
\* takes the place of table u, whose old nodes are garbage
TableClone(h, t, u) ==
  LET keep == [id \in {i \in DOMAIN h : i[1] # u} |-> h[id]]
  IN  cloneRec(cloneRec(keep, Root(t, TRUE), Root(u, TRUE)), Root(t, FALSE), Root(u, FALSE))

(***************************************************************************)
(* The state machine.  heap is the heap of nodes of the tables A and B;    *)
(* ref is the reference map of each table (0: not stored); last is the     *)
(* operation that led to the state and what it returned (for a union: the  *)
(* number of nodes it allocated).                                          *)
(***************************************************************************)
AllPfxs == {PfxList[i] : i \in 1..Len(PfxList)} \cup {PfxListRd[i] : i \in 1..Len(PfxListRd)}
           \cup {PfxListPc[i] : i \in 1..Len(PfxListPc)}
           \cup {PfxListLpm[i] : i \in 1..Len(PfxListLpm)}
           \cup {PfxListNq[i] : i \in 1..Len(PfxListNq)}
FirstPfxs(k) == {PfxList[i] : i \in 1..(IF k <= Len(PfxList) THEN k ELSE Len(PfxList))}
Pfxs == FirstPfxs(NumPfx)
PfxsOne == FirstPfxs(NumPfxOne)
PfxsOv == FirstPfxs(NumPfxOv)
PfxsLpm == {PfxListLpm[i] : i \in 1..(IF NumPfxLpm <= Len(PfxListLpm) THEN NumPfxLpm
                                        ELSE Len(PfxListLpm))}
PfxsPc == {PfxListPc[i] : i \in 1..(IF NumPfxPc <= Len(PfxListPc) THEN NumPfxPc
                                      ELSE Len(PfxListPc))}
PfxsNq == {PfxListNq[i] : i \in 1..(IF NumPfxNq <= Len(PfxListNq) THEN NumPfxNq
                                      ELSE Len(PfxListNq))}
PfxsWk == {PfxListRd[i] : i \in 1..(IF NumPfxWk <= Len(PfxListRd) THEN NumPfxWk
                                      ELSE Len(PfxListRd))}
PfxsTm == {PfxListNq[i] : i \in 1..(IF NumPfxTm <= Len(PfxListNq) THEN NumPfxTm
                                      ELSE Len(PfxListNq))}
PfxsRd == {PfxListRd[i] : i \in 1..(IF NumPfxRd <= Len(PfxListRd) THEN NumPfxRd
                                      ELSE Len(PfxListRd))}

Other(t) == IF t = "A" THEN "B" ELSE "A"

Done(op, t, p, v, ok) == [op |-> op, t |-> t, p |-> p, v |-> v, ok |-> ok]

Init ==
  /\ heap = [id \in {Root(t, is4) : t \in Tables, is4 \in BOOLEAN} |-> newNode]
  /\ ref = [t \in Tables |-> [p \in AllPfxs |-> 0]]
  /\ last = Done("init", "A", NoPfx, ZeroVal, FALSE)

Insert(t, p, v) ==
  /\ heap' = TableInsert(heap, t, p, v)
  /\ ref' = [ref EXCEPT ![t][p] = v]
  /\ last' = Done("insert", t, p, v, TRUE)

Delete(t, p) ==
  LET r == TableDelete(heap, t, p)
  IN  /\ heap' = r.heap
      /\ ref' = [ref EXCEPT ![t][p] = 0]
      /\ last' = Done("delete", t, p, ZeroVal, r.wasPresent)

Update(t, p, cb) ==
  LET r == TableUpdate(heap, t, p, cb)
  IN  /\ heap' = r.heap
      /\ ref' = [ref EXCEPT ![t][p] = ApplyCb(cb, @, @ # 0)]
      /\ last' = Done("update", t, p, r.val, TRUE)

Union(t) ==
  /\ heap' = TableUnion(heap, t, Other(t))
  /\ ref' = [ref EXCEPT ![t] = [p \in AllPfxs |-> IF ref[Other(t)][p] # 0
                                                   THEN ref[Other(t)][p] ELSE @[p]]]
  /\ last' = Done("union", t, NoPfx, Cardinality(DOMAIN heap') - Cardinality(DOMAIN heap), TRUE)

\* table t becomes a clone of the other table
Clone(t) ==
  /\ heap' = TableClone(heap, Other(t), t)
  /\ ref' = [ref EXCEPT ![t] = ref[Other(t)]]
  /\ last' = Done("clone", t, NoPfx, ZeroVal, TRUE)

Next ==
  \/ \E t \in Tables, p \in Pfxs, v \in Vals : Insert(t, p, v)
  \/ \E t \in Tables, p \in Pfxs : Delete(t, p)
  \/ \E t \in Tables, p \in Pfxs, cb \in Vals : Update(t, p, cb)
  \/ \E t \in Tables : Union(t)
  \/ \E t \in Tables : Clone(t)

Spec == Init /\ [][Next]_vars

\* one table, more prefixes
NextOne ==
  \/ \E p \in PfxsOne, v \in Vals : Insert("A", p, v)
  \/ \E p \in PfxsOne : Delete("A", p)
  \/ \E p \in PfxsOne, cb \in Vals : Update("A", p, cb)

SpecOne == Init /\ [][NextOne]_vars

\* two tables, inserts and deletes only, one value
NextOv ==
  \/ \E t \in Tables, p \in PfxsOv : Insert(t, p, 1)
  \/ \E t \in Tables, p \in PfxsOv : Delete(t, p)

SpecOv == Init /\ [][NextOv]_vars

\* one table with the prefixes of the read operations, one value
NextRd ==
  \/ \E p \in PfxsRd : Insert("A", p, 1)
  \/ \E p \in PfxsRd : Delete("A", p)

SpecRd == Init /\ [][NextRd]_vars

\* one table, the routes of one node
NextLpm ==
  \/ \E p \in PfxsLpm, v \in Vals : Insert("A", p, v)
  \/ \E p \in PfxsLpm : Delete("A", p)
  \/ \E p \in PfxsLpm, cb \in Vals : Update("A", p, cb)

SpecLpm == Init /\ [][NextLpm]_vars

\* the loops of the node operations on the nodes of table A
LoopOps ==
  {"lpmByIndex loop", "apmByPrefix loop", "subnets route loop", "subnets child loop",
   "overlapsPrefix route loop", "overlapsPrefix child loop",
   "unionRec route loop", "unionRec child loop",
   "overlapsRec route loop", "overlapsRec child loop"}

\* a loop is entered with its inputs and its loop variables; last.p holds
\* both, last.v the number of rounds
StartLoop(op, in, at) ==
  /\ last' = Done(op, "A", [in |-> in, at |-> at], 0, FALSE)
  /\ UNCHANGED <<heap, ref>>

\* one round of the loop op
LoopRound(op, r) ==
  /\ last.op = op
  /\ ~last.ok
  /\ last.v < MaxRounds
  /\ last' = [last EXCEPT !.p.at = r.v, !.v = @ + 1, !.ok = r.exit]
  /\ UNCHANGED <<heap, ref>>

ZigZagStart(n, o, routes) ==
  LET zr == ZigZagRoutes(n, o, 0, Len(n.prefixes) > 0, 0, Len(o.prefixes) > 0, {}, {})
  IN  [nIdx |-> 0, oIdx |-> 0,
       nOk |-> IF routes THEN Len(n.prefixes) > 0 ELSE Len(n.children) > 0,
       oOk |-> IF routes THEN Len(o.prefixes) > 0 ELSE Len(o.children) > 0,
       nAllot |-> IF routes THEN {} ELSE zr.nAllot,
       oAllot |-> IF routes THEN {} ELSE zr.oAllot]

LoopStarts ==
  /\ last.op \notin LoopOps
  /\ \/ \E id \in TableNodes(heap, "A"), idx \in 1..lastHostIndex :
          StartLoop("lpmByIndex loop", [id |-> id], [idx |-> idx])
     \/ \E id \in TableNodes(heap, "A"), idx \in 1..lastHostIndex :
          /\ Len(heap[id].prefixes) # 0
          /\ StartLoop("apmByPrefix loop", [id |-> id], [idx |-> idx])
     \/ \E id \in TableNodes(heap, "A"), parentIdx \in 1..lastHostIndex :
          \E idx \in heap[id].prefixesBitset :
            StartLoop("subnets route loop", [id |-> id, parentIdx |-> parentIdx], [i |-> idx])
     \/ \E id \in TableNodes(heap, "A"), parentIdx \in 1..lastHostIndex :
          \E octet \in heap[id].childrenBitset :
            StartLoop("subnets child loop", [id |-> id, parentIdx |-> parentIdx],
                      [i |-> octetToBaseIndex(octet)])
     \/ \E id \in TableNodes(heap, "A"), pfxIdx \in 1..lastHostIndex :
          LET octet  == baseIndexToPrefix(pfxIdx)[1]
              pfxLen == baseIndexToPrefix(pfxIdx)[2]
          IN  /\ ~lpmByIndex(heap[id], pfxIdx)[3]
              /\ StartLoop("overlapsPrefix route loop",
                           [id |-> id, lo |-> octet + firstHostIndex,
                            hi |-> lastHostIndexOfPrefix(octet, pfxLen)],
                           [idx |-> Shl(pfxIdx, 1)])
     \/ \E id \in TableNodes(heap, "A"), pfxIdx \in 1..lastHostIndex :
          LET octet  == baseIndexToPrefix(pfxIdx)[1]
              pfxLen == baseIndexToPrefix(pfxIdx)[2]
              lo     == octet + firstHostIndex
              hi     == lastHostIndexOfPrefix(octet, pfxLen)
          IN  /\ ~lpmByIndex(heap[id], pfxIdx)[3]
              /\ ~OverlapsPrefixRoutes(heap[id], Shl(pfxIdx, 1), lo, hi)
              /\ StartLoop("overlapsPrefix child loop", [id |-> id, lo |-> lo, hi |-> hi],
                           [idx |-> octet])
     \/ \E id \in TableNodes(heap, "A") : StartLoop("unionRec route loop", [id |-> id], [idx |-> 0])
     \/ \E id \in TableNodes(heap, "A") : StartLoop("unionRec child loop", [id |-> id], [idx |-> 0])
     \/ \E nId \in TableNodes(heap, "A"), oId \in TableNodes(heap, "A") :
          StartLoop("overlapsRec route loop", [id |-> nId, o |-> oId],
                    ZigZagStart(heap[nId], heap[oId], TRUE))
     \/ \E nId \in TableNodes(heap, "A"), oId \in TableNodes(heap, "A") :
          /\ ~ZigZagRoutes(heap[nId], heap[oId], 0, Len(heap[nId].prefixes) > 0,
                           0, Len(heap[oId].prefixes) > 0, {}, {}).hit
          /\ StartLoop("overlapsRec child loop", [id |-> nId, o |-> oId],
                       ZigZagStart(heap[nId], heap[oId], FALSE))

LoopRounds ==
  \/ LoopRound("lpmByIndex loop", LpmRound(heap[last.p.in.id], last.p.at.idx))
  \/ LoopRound("apmByPrefix loop", ApmRound(heap[last.p.in.id], last.p.at.idx))
  \/ LoopRound("subnets route loop", SubnetsRouteRound(last.p.at.i, last.p.in.parentIdx))
  \/ LoopRound("subnets child loop", SubnetsChildRound(last.p.at.i, last.p.in.parentIdx))
  \/ LoopRound("overlapsPrefix route loop",
               OverlapsPrefixRoutesRound(heap[last.p.in.id], last.p.at.idx, last.p.in.lo, last.p.in.hi))
  \/ LoopRound("overlapsPrefix child loop",
               OverlapsPrefixChildrenRound(heap[last.p.in.id], last.p.at.idx, last.p.in.lo, last.p.in.hi))
  \/ LoopRound("unionRec route loop", UnionRoutesRound(heap[last.p.in.id], last.p.at.idx))
  \/ LoopRound("unionRec child loop", UnionChildrenRound(heap[last.p.in.id], last.p.at.idx))
  \/ LoopRound("overlapsRec route loop",
               ZigZagRoutesRound(heap[last.p.in.id], heap[last.p.in.o], last.p.at))
  \/ LoopRound("overlapsRec child loop",
               ZigZagChildrenRound(heap[last.p.in.id], heap[last.p.in.o], last.p.at))

\* the trie grows while no loop runs; a loop that has been entered runs its
\* rounds
NextTm ==
  \/ \E p \in PfxsTm : (last.op \in LoopOps => last.ok) /\ Insert("A", p, 1)
  \/ LoopStarts
  \/ LoopRounds

\* a loop that has been entered goes on with its next round
SpecTm == Init /\ [][NextTm]_vars /\ WF_vars(LoopRounds)

\* two tables filled and emptied in any order
NextWk ==
  \/ \E t \in Tables, p \in PfxsWk : Insert(t, p, 1)
  \/ \E t \in Tables, p \in PfxsWk : Delete(t, p)

SpecWk == Init /\ [][NextWk]_vars

\* a query on one node of a table: overlapsPrefix with an in-stride prefix
OverlapsPrefix(t, id, octet, pfxLen) ==
  /\ id \in TableNodes(heap, t)
  /\ last' = Done("overlapsPrefix", t, <<octet, pfxLen>>, id,
                  overlapsPrefix(heap[id], octet, pfxLen))
  /\ UNCHANGED <<heap, ref>>

\* a query on one node of a table: apmByPrefix with an in-stride prefix
ApmByPrefix(t, id, octet, bits) ==
  /\ id \in TableNodes(heap, t)
  /\ last' = Done("apmByPrefix", t, <<octet, bits>>,
                  [id |-> id, result |-> apmByPrefix(heap[id], octet, bits)], TRUE)
  /\ UNCHANGED <<heap, ref>>

\* one table and the queries on its nodes
NextNq ==
  \/ \E p \in PfxsNq : Insert("A", p, 1)
  \/ \E p \in PfxsNq : Delete("A", p)
  \/ \E id \in DOMAIN heap, o \in QueryOctets, len \in 0..strideLen :
       OverlapsPrefix("A", id, o - (o % (2 ^ (strideLen - len))), len)
  \/ \E id \in DOMAIN heap, o \in QueryOctets, len \in 0..strideLen :
       ApmByPrefix("A", id, o - (o % (2 ^ (strideLen - len))), len)

SpecNq == Init /\ [][NextNq]_vars

\* the removal of an empty child node from its parent
Prune(t, id, octet) ==
  LET c == getChild(heap[id], octet)
  IN  /\ id \in TableNodes(heap, t)
      /\ c # NIL
      /\ isEmpty(heap[c])
      /\ heap' = [x \in DOMAIN heap \ {c} |->
                    IF x = id THEN deleteChild(heap[id], octet) ELSE heap[x]]
      /\ ref' = ref
      /\ last' = Done("prune", t, NoPfx, octet, TRUE)

\* table A with all its operations; table B, built by Insert, to unite
\* with and to clone
NextPc ==
  \/ \E p \in PfxsPc, v \in Vals : Insert("A", p, v)
  \/ \E p \in PfxsPc : Delete("A", p)
  \/ \E p \in PfxsPc, cb \in Vals : Update("A", p, cb)
  \/ \E id \in DOMAIN heap : \E octet \in heap[id].childrenBitset : Prune("A", id, octet)
  \/ \E p \in PfxsPc : Insert("B", p, MaxVal)
  \/ Union("A")
  \/ Clone("A")

SpecPc == Init /\ [][NextPc]_vars

\* the base index codec: the initial state draws an octet and a length to
\* encode, or a base index to decode
InitCodec ==
  /\ heap = [id \in {Root(t, is4) : t \in Tables, is4 \in BOOLEAN} |-> newNode]
  /\ ref = [t \in Tables |-> [p \in AllPfxs |-> 0]]
  /\ \/ \E octet \in 0..(maxNodeChildren - 1), prefixLen \in 0..strideLen :
          last = Done("octet", "A", <<octet, prefixLen>>, 0, FALSE)
     \/ \E idx \in 1..lastHostIndex :
          last = Done("index", "A", <<0, 0>>, idx, FALSE)

Encode ==
  /\ last.op = "octet"
  /\ last' = Done("encode", "A", last.p, prefixToBaseIndex(last.p[1], last.p[2]), TRUE)
  /\ UNCHANGED <<heap, ref>>

Decode ==
  /\ last.op = "index"
  /\ last' = Done("decode", "A", baseIndexToPrefix(last.v), last.v, TRUE)
  /\ UNCHANGED <<heap, ref>>

NextCodec == Encode \/ Decode

SpecCodec == InitCodec /\ [][NextCodec]_vars

\* the allotment: the initial state draws a base index, and allot or
\* allotRec fills an all-false table from it
InitAllot ==
  /\ heap = [id \in {Root(t, is4) : t \in Tables, is4 \in BOOLEAN} |-> newNode]
  /\ ref = [t \in Tables |-> [p \in AllPfxs |-> 0]]
  /\ \E idx \in 1..lastHostIndex :
       last = Done("index", "A", <<0, 0>>, idx, FALSE)

Allot ==
  /\ last.op = "index"
  /\ last' = Done("allot", "A", lowerUpperBound(last.v),
                  [idx |-> last.v, tbl |-> allot({}, last.v)], TRUE)
  /\ UNCHANGED <<heap, ref>>

AllotRec ==
  /\ last.op = "index"
  /\ last' = Done("allotRec", "A", lowerUpperBound(last.v),
                  [idx |-> last.v, tbl |-> allotRec({}, last.v)], TRUE)
  /\ UNCHANGED <<heap, ref>>

NextAllot == Allot \/ AllotRec

SpecAllot == InitAllot /\ [][NextAllot]_vars

(***************************************************************************)
(* The reference semantics of prefixes, independent of the base index.     *)
(***************************************************************************)
\* bit i (0 is the most significant bit) of an octet sequence
BitOf(octets, i) == (octets[(i \div 8) + 1] \div (2 ^ (7 - (i % 8)))) % 2

\* prefix q contains the address a
ContainsAddr(q, a) ==
  /\ q.is4 = a.is4
  /\ \A i \in 0..(q.bits - 1) : BitOf(q.octets, i) = BitOf(a.octets, i)

\* prefix q contains all of prefix p
ContainsPfx(q, p) ==
  /\ q.is4 = p.is4
  /\ q.bits <= p.bits
  /\ \A i \in 0..(q.bits - 1) : BitOf(q.octets, i) = BitOf(p.octets, i)

Stored(t) == {p \in AllPfxs : ref[t][p] # 0}

Longest(S) == CHOOSE q \in S : \A r \in S : r.bits <= q.bits

(***************************************************************************)
(* C1: after any sequence of Insert, Update and Delete, Lookup(a) returns  *)
(* the value of the longest stored prefix that contains a, and ok = false  *)
(* exactly when no stored prefix contains a; Contains(a) is that ok.       *)
(***************************************************************************)
C1_LookupIsLongestMatch ==
  \A t \in Tables, a \in Addrs :
    LET S == {q \in Stored(t) : ContainsAddr(q, a)}
        r == TableLookup(heap, t, a)
    IN  /\ r[2] = (S # {})
        /\ S # {} => r[1] = ref[t][Longest(S)]
        /\ TableContains(heap, t, a) = r[2]

\* a delete has removed the longest match of an address, and the lookup
\* falls back to a shorter stored prefix of another stride
C1_Witness ==
  /\ last.op = "delete"
  /\ last.ok
  /\ \E a \in Addrs :
       LET S == {q \in Stored(last.t) : ContainsAddr(q, a)}
       IN  /\ ContainsAddr(last.p, a)
           /\ S # {}
           /\ Longest(S).bits < last.p.bits
           /\ lastDepth(Longest(S).bits) < lastDepth(last.p.bits)
           /\ TableLookup(heap, last.t, a) = <<ref[last.t][Longest(S)], TRUE>>

(***************************************************************************)
(* C2: LookupPrefix(p) and LookupPrefixLPM(p) return the value of the      *)
(* longest stored prefix q that contains all of p (never a route more      *)
(* specific than p), ok = false when no stored prefix contains p, and      *)
(* LookupPrefixLPM returns exactly that q as the matching CIDR.            *)
(***************************************************************************)
C2_LookupPrefixIsLongestCover ==
  \A t \in Tables, p \in AllPfxs :
    LET S == {q \in Stored(t) : ContainsPfx(q, p)}
        r == TableLookupPrefixLPM(heap, t, p)
        s == TableLookupPrefix(heap, t, p)
    IN  /\ r[3] = (S # {})
        /\ s[2] = (S # {})
        /\ S # {} => /\ r[1] = Longest(S)
                     /\ r[2] = ref[t][Longest(S)]
                     /\ s[1] = ref[t][Longest(S)]

\* a route more specific than p is stored in the stride where p ends, and
\* LookupPrefixLPM(p) returns a shorter stored prefix of that stride
C2_Witness ==
  \E p \in AllPfxs, q \in Stored("A"), m \in Stored("A") :
    /\ ContainsPfx(p, m)
    /\ m # p
    /\ lastDepth(m.bits) = lastDepth(p.bits)
    /\ ContainsPfx(q, p)
    /\ q # p
    /\ lastDepth(q.bits) = lastDepth(p.bits)
    /\ TableLookupPrefixLPM(heap, "A", p) = <<q, ref["A"][q], TRUE>>

(***************************************************************************)
(* C3: immediately after insert(p, v), get(p) returns (v, true); a delete  *)
(* of p that follows returns true, and after every delete of p that        *)
(* returned true, get(p) returns ok = false and a further delete(p)        *)
(* returns false.                                                          *)
(***************************************************************************)
C3_InsertGetDeleteRoundTrip ==
  [][ /\ last'.op = "insert" =>
           TableGet(heap', last'.t, last'.p) = <<last'.v, TRUE>>
      /\ (last.op = "insert" /\ last'.op = "delete"
            /\ last'.t = last.t /\ last'.p = last.p) => last'.ok
      /\ (last'.op = "delete" /\ last'.ok) =>
           /\ ~TableGet(heap', last'.t, last'.p)[2]
           /\ ~TableDelete(heap', last'.t, last'.p).wasPresent
    ]_vars

\* a prefix was deleted from a node that keeps another prefix at a lower
\* and one at a higher base index
C3_Witness ==
  /\ last.op = "delete"
  /\ last.ok
  /\ \E q \in Stored(last.t), r \in Stored(last.t) :
       /\ q.is4 = last.p.is4
       /\ r.is4 = last.p.is4
       /\ lastDepth(q.bits) = 0
       /\ lastDepth(r.bits) = 0
       /\ lastDepth(last.p.bits) = 0
       /\ q.bits < last.p.bits
       /\ last.p.bits < r.bits

(***************************************************************************)
(* C4: deleting a prefix that is not stored returns false and changes no   *)
(* node: the prefix bitset, the value slice, the child bitset and the      *)
(* children of every node are the same before and after the call.          *)
(***************************************************************************)
C4_DeleteAbsentIsNoOp ==
  /\ \A t \in Tables, p \in AllPfxs :
       ref[t][p] = 0 => TableDelete(heap, t, p) = [heap |-> heap, wasPresent |-> FALSE]
  /\ (last.op = "delete" /\ ~last.ok) => ~TableGet(heap, last.t, last.p)[2]

\* a delete returned false in a table whose last stride node for the prefix
\* exists and stores other prefixes below and above its base index
C4_Witness ==
  /\ last.op = "delete"
  /\ ~last.ok
  /\ \E q \in Stored(last.t), r \in Stored(last.t) :
       /\ q.is4 = last.p.is4
       /\ r.is4 = last.p.is4
       /\ lastDepth(q.bits) = 0
       /\ lastDepth(r.bits) = 0
       /\ lastDepth(last.p.bits) = 0
       /\ q.bits < last.p.bits
       /\ last.p.bits < r.bits

(***************************************************************************)
(* C5: overlaps(A, B) is true if and only if a prefix stored in A and a    *)
(* prefix stored in B of the same address family exist of which one        *)
(* contains the other; child nodes that hold no stored prefix never make   *)
(* the result true.                                                        *)
(***************************************************************************)
RefOverlaps(t, u) ==
  \E p \in Stored(t), q \in Stored(u) : ContainsPfx(p, q) \/ ContainsPfx(q, p)

C5_OverlapsIffStoredPrefixesOverlap ==
  \A t \in Tables : TableOverlaps(heap, t, Other(t)) = RefOverlaps(t, Other(t))

(***************************************************************************)
(* C10: overlaps is symmetric, for the tables and for every two nodes:     *)
(* n.overlapsRec(o) = o.overlapsRec(n).                                    *)
(***************************************************************************)
C10_OverlapsSymmetric ==
  /\ TableOverlaps(heap, "A", "B") = TableOverlaps(heap, "B", "A")
  /\ \A n \in DOMAIN heap, o \in DOMAIN heap :
       overlapsRec(heap, n, o) = overlapsRec(heap, o, n)

\* one table has a child at an octet that a route of the other table's
\* root covers, the other way round there is no such child, and the
\* tables overlap
C10_Witness ==
  /\ heap[Root("A", TRUE)].children # <<>>
  /\ heap[Root("A", TRUE)].prefixes = <<>>
  /\ heap[Root("B", TRUE)].children = <<>>
  /\ heap[Root("B", TRUE)].prefixes # <<>>
  /\ Stored("A") # {}
  /\ TableOverlaps(heap, "A", "B")
  /\ TableOverlaps(heap, "B", "A")

(***************************************************************************)
(* C6: after any sequence of inserts, updates, deletes, unions and clones, *)
(* a walk whose callback never returns an error passes every stored        *)
(* prefix exactly once, with its current value, and nothing else.          *)
(***************************************************************************)
SeqRange(s) == {s[i] : i \in 1..Len(s)}

RefPairs(t) == {<<p, ref[t][p]>> : p \in Stored(t)}

C6_WalkEmitsLiveInsertions ==
  \A t \in Tables :
    LET w == TableWalk(heap, t, NeverErr)
    IN  /\ w.err = nilErr
        /\ SeqRange(w.out) = RefPairs(t)
        /\ Len(w.out) = Cardinality(RefPairs(t))

\* after a union, the walk of the receiver emits two prefixes of one node,
\* one with the value it had before and one with the value of the other
\* table
C6_Witness ==
  /\ last.op = "union"
  /\ \E p \in Stored(last.t), q \in Stored(last.t) :
       /\ p # q
       /\ lastDepth(p.bits) = lastDepth(q.bits)
       /\ ref[Other(last.t)][p] = 0
       /\ ref[Other(last.t)][q] # 0
       /\ ref[last.t][p] # ref[last.t][q]
       /\ Len(TableWalk(heap, last.t, NeverErr).out) = 2

(***************************************************************************)
(* C7: after union(A, B) the prefixes stored in A are exactly those A had  *)
(* before and those of B; for every prefix stored in B, get_A equals       *)
(* get_B; every prefix stored only in A keeps its value.                   *)
(***************************************************************************)
WalkCidrs(h, t) == {x[1] : x \in SeqRange(TableWalk(h, t, NeverErr).out)}

C7_UnionSemantics ==
  [][ last'.op = "union" =>
        LET t == last'.t
            u == Other(last'.t)
        IN  /\ WalkCidrs(heap', t) = WalkCidrs(heap, t) \cup WalkCidrs(heap, u)
            /\ \A p \in AllPfxs :
                 /\ TableGet(heap, u, p)[2] =>
                      /\ TableGet(heap', t, p) = TableGet(heap', u, p)
                      /\ TableGet(heap', t, p) = TableGet(heap, u, p)
                 /\ ~TableGet(heap, u, p)[2] =>
                      TableGet(heap', t, p) = TableGet(heap, t, p)
    ]_vars

\* a union has overwritten a value of the receiver in a node where the
\* receiver keeps a prefix of its own
C7_Witness ==
  /\ last.op = "union"
  /\ \E p \in Stored(last.t), q \in Stored(last.t) :
       /\ lastDepth(p.bits) = lastDepth(q.bits)
       /\ ref[Other(last.t)][p] = 0
       /\ ref[Other(last.t)][q] = 2
       /\ ref[last.t][q] = 2
       /\ ref[last.t][p] = 1

(***************************************************************************)
(* C8: union(A, B) leaves every node of B as it was, no node of B is       *)
(* reachable from A afterwards, and every insert, update and delete on     *)
(* one table leaves the nodes and the walk of the other table unchanged;   *)
(* in every state the get and lookup results of a table are those its      *)
(* walk determines, so they are unchanged as well.                         *)
(***************************************************************************)
ReadsFollowWalk ==
  \A t \in Tables :
    LET w        == SeqRange(TableWalk(heap, t, NeverErr).out)
        W        == {x[1] : x \in w}
        valOf(p) == (CHOOSE x \in w : x[1] = p)[2]
    IN  /\ \A p \in AllPfxs :
             TableGet(heap, t, p) =
               IF p \in W THEN <<valOf(p), TRUE>> ELSE <<ZeroVal, FALSE>>
        /\ \A a \in Addrs :
             LET S == {q \in W : ContainsAddr(q, a)}
             IN  TableLookup(heap, t, a) =
                   IF S # {} THEN <<valOf(Longest(S)), TRUE>>
                   ELSE <<ZeroVal, FALSE>>

NoSharedNode == TableNodes(heap, "A") \cap TableNodes(heap, "B") = {}

NodesUnchanged(t) ==
  \A id \in TableNodes(heap, t) : id \in DOMAIN heap' /\ heap'[id] = heap[id]

MutationLeavesOtherAlone ==
  last'.op \in {"insert", "update", "delete"} =>
    /\ NodesUnchanged(Other(last'.t))
    /\ TableWalk(heap', Other(last'.t), NeverErr) = TableWalk(heap, Other(last'.t), NeverErr)

C8_UnionLeavesSourceAlone ==
  /\ []ReadsFollowWalk
  /\ [](last.op = "union" => NoSharedNode)
  /\ [][ /\ last'.op = "union" =>
              /\ NodesUnchanged(Other(last'.t))
              /\ TableNodes(heap', Other(last'.t)) = TableNodes(heap, Other(last'.t))
         /\ MutationLeavesOtherAlone
       ]_vars

\* a union has allocated the clone of a child node of the source for the
\* receiver, which has no prefix of its own left
C8_Witness ==
  /\ last.op = "union"
  /\ last.v > 0
  /\ Stored(last.t) = Stored(Other(last.t))
  /\ Cardinality(Stored(last.t)) = 2
  /\ heap[Root(last.t, TRUE)].children # heap[Root(Other(last.t), TRUE)].children

(***************************************************************************)
(* C9: clone(T) walks as T does and shares no node with T: every insert,   *)
(* update and delete on one of them leaves the nodes and the walk of the   *)
(* other unchanged, and with them the get and lookup results, which the    *)
(* walk determines in every state.                                         *)
(***************************************************************************)
C9_CloneIndependence ==
  /\ []ReadsFollowWalk
  /\ []NoSharedNode
  /\ [][ /\ last'.op = "clone" =>
              /\ TableWalk(heap', last'.t, NeverErr) = TableWalk(heap', Other(last'.t), NeverErr)
              /\ TableWalk(heap', last'.t, NeverErr) = TableWalk(heap, Other(last'.t), NeverErr)
              /\ NodesUnchanged(Other(last'.t))
         /\ MutationLeavesOtherAlone
       ]_vars

\* the clone of a table with a child node that stores two prefixes
C9_Witness ==
  /\ last.op = "clone"
  /\ Cardinality(Stored(last.t)) = 2
  /\ \E id \in TableNodes(heap, last.t) : id[3] # <<>> /\ Len(heap[id].prefixes) = 2

(***************************************************************************)
(* The addresses of the heap: every node is reachable from the table of    *)
(* its address, at the path of its address, and from no other table, so    *)
(* the address ChildAddr names is free when it is allocated.               *)
(***************************************************************************)
RECURSIVE PathsOk(_, _)
PathsOk(h, id) ==
  \A i \in 1..Len(h[id].children) :
    /\ h[id].children[i] = ChildAddr(id, allChildAddrs(h[id])[i])
    /\ PathsOk(h, h[id].children[i])

OwnNodes ==
  /\ DOMAIN heap = TableNodes(heap, "A") \cup TableNodes(heap, "B")
  /\ \A t \in Tables, is4 \in BOOLEAN : PathsOk(heap, Root(t, is4))

(***************************************************************************)
(* C11: a table that stores at least one prefix overlaps itself, at        *)
(* whichever stride depth its prefixes live, also when its root node has   *)
(* children and no prefixes.                                               *)
(***************************************************************************)
C11_NonEmptyOverlapsItself ==
  \A t \in Tables : Stored(t) # {} => TableOverlaps(heap, t, t)

\* the table stores prefixes of the second stride only: its root has a
\* child and no prefix, and the overlap is found by the descent
C11_Witness ==
  /\ Stored("A") # {}
  /\ \A p \in Stored("A") : lastDepth(p.bits) = 1
  /\ heap[Root("A", TRUE)].prefixes = <<>>
  /\ heap[Root("A", TRUE)].children # <<>>
  /\ TableOverlaps(heap, "A", "A")

(***************************************************************************)
(* C12: when the walk callback returns an error for a prefix, the walk     *)
(* ends there: its invocations are those of the walk without errors up to  *)
(* and including that prefix, none for a later prefix or child subtree,    *)
(* and Walk returns that error; when the callback returns no error, Walk   *)
(* returns nil after all invocations.                                      *)
(***************************************************************************)
ErrCodes == 1..MaxErr

\* the callbacks that return an error for at most two of the CIDRs of S
Callbacks(S) ==
  UNION {[D -> ErrCodes] : D \in {D \in SUBSET S : Cardinality(D) <= 2}}

C12_WalkStopsAtError ==
  \A t \in Tables : \A cb \in Callbacks(Stored(t)) :
    LET full == TableWalk(heap, t, NeverErr).out
        w    == TableWalk(heap, t, cb)
        hits == {i \in 1..Len(full) : CallCb(cb, full[i][1], full[i][2]) # nilErr}
    IN  IF hits = {}
        THEN w.err = nilErr /\ w.out = full
        ELSE LET k == CHOOSE i \in hits : \A j \in hits : i <= j
             IN  /\ w.out = SubSeq(full, 1, k)
                 /\ w.err = cb[full[k][1]]

\* the callback returns error 2 for a prefix of the first child node and
\* error 1 for a prefix of the second: the walk ends in the first child,
\* before that child's own child and before the second child
C12_Witness ==
  LET cb == (PfxListRd[1] :> 2) @@ (PfxListRd[4] :> 1)
      w  == TableWalk(heap, "A", cb)
  IN  /\ {PfxListRd[1], PfxListRd[2], PfxListRd[4], PfxListRd[5]} \subseteq Stored("A")
      /\ w.err = 2
      /\ w.out[Len(w.out)][1] = PfxListRd[1]
      /\ Len(w.out) < Len(TableWalk(heap, "A", NeverErr).out) - 1

(***************************************************************************)
(* C13: for every node and every parentIdx in 1..511, subnets returns, of  *)
(* the prefixes stored in the node and below it, exactly those equal to    *)
(* or more specific than the prefix of parentIdx, each once: the indexes   *)
(* of the node whose ancestor chain reaches parentIdx, and all prefixes    *)
(* below the children whose host index has parentIdx in its chain.         *)
(***************************************************************************)
\* the chain j, j >> 1, j >> 2, ... passes through idx
InChain(j, idx) == \E k \in 0..strideLen : j \div (2 ^ k) = idx

\* the prefixes stored in node id and below: <<node, base index>>
StoredBelow(h, id) ==
  UNION {{<<c, i>> : i \in h[c].prefixesBitset} : c \in Reach(h, id)}

CidrOf(x) == cidrFromPath(x[1][3], x[2], x[1][2])

C13_SubnetsAreTheCoveredPrefixes ==
  \A id \in TableNodes(heap, "A") :
    LET below == StoredBelow(heap, id)
        depth == Len(id[3])
    IN  \A parentIdx \in 1..lastHostIndex :
          LET r      == subnets(heap, id, Slice(id[3], <<>>), parentIdx, id[2]).result
              parent == cidrFromPath(id[3], parentIdx, id[2])
              cov    == {x \in below : ContainsPfx(parent, CidrOf(x))}
          IN  /\ SeqRange(r) = {CidrOf(x) : x \in cov}
              /\ Len(r) = Cardinality(cov)
              /\ Cardinality(SeqRange(r)) = Len(r)
              /\ SeqRange(r) \subseteq Stored("A")
              /\ cov = {x \in below :
                          \/ x[1] = id /\ InChain(x[2], parentIdx)
                          \/ /\ x[1] # id
                             /\ InChain(firstHostIndex + x[1][3][depth + 1], parentIdx)}

\* the root node has two routes and two children, and the parent prefix
\* 12.0.0.0/7 covers one route and one child
C13_Witness ==
  /\ {PfxListRd[1], PfxListRd[2], PfxListRd[3], PfxListRd[4]} \subseteq Stored("A")
  /\ subnets(heap, Root("A", TRUE), nilSlice, prefixToBaseIndex(12, 7), TRUE).result
       = <<PfxListRd[2], PfxListRd[4]>>

(***************************************************************************)
(* C14: for every table content and every parent prefix p, the list        *)
(* Subnets(p) returns holds the stored prefixes p covers in canonical      *)
(* order: ascending address, compared bit by bit from the left, and        *)
(* ascending prefix length among equal addresses.                          *)
(***************************************************************************)
AddrBits(p) == IF p.is4 THEN 32 ELSE 128

CanonLess(a, b) ==
  \/ a.is4 /\ ~b.is4
  \/ /\ a.is4 = b.is4
     /\ \/ \E k \in 0..(AddrBits(a) - 1) :
             /\ BitOf(a.octets, k) < BitOf(b.octets, k)
             /\ \A j \in 0..(k - 1) : BitOf(a.octets, j) = BitOf(b.octets, j)
        \/ a.octets = b.octets /\ a.bits < b.bits

C15_PopcountCorrespondence ==
  \A id \in DOMAIN heap :
    LET n == heap[id]
    IN  /\ Len(n.prefixes) = Cardinality(n.prefixesBitset)
        /\ Len(n.children) = Cardinality(n.childrenBitset)
        /\ \A i \in n.prefixesBitset :
             /\ cidrFromPath(id[3], i, id[2]) \in AllPfxs
             /\ n.prefixes[Rank(n.prefixesBitset, i)] = ref[id[1]][cidrFromPath(id[3], i, id[2])]
             /\ ref[id[1]][cidrFromPath(id[3], i, id[2])] # 0
        /\ \A octet \in n.childrenBitset :
             n.children[Rank(n.childrenBitset, octet)] = ChildAddr(id, octet)

\* the first of two children of the root node has been removed: the
\* second child, with its route, has moved to the first slot
C15_Witness ==
  /\ last.op = "prune"
  /\ last.v = 10
  /\ heap[Root("A", TRUE)].childrenBitset = {12}
  /\ heap[Root("A", TRUE)].children = <<ChildAddr(Root("A", TRUE), 12)>>
  /\ ref["A"][PfxListPc[2]] # 0

(***************************************************************************)
(* C16: the read operations leave what the caller handed them as it was:   *)
(* walkRec and subnets write to no cell of the caller's path, neither to   *)
(* its elements nor to the spare cells of its backing array, at any node,  *)
(* with and without an error of the callback.                              *)
(***************************************************************************)
\* the spare cells behind the caller's path
Spares == {<<>>, <<7>>, <<7, 7, 7>>}

C17_UpdateCallsCbOnce ==
  \A p \in AllPfxs, cb \in Vals :
    LET old == ref["A"][p]
        r   == TableUpdate(heap, "A", p, cb)
    IN  /\ r.calls = <<<<old, old # 0>>>>
        /\ r.val = ApplyCb(cb, old, old # 0)
        /\ TableGet(r.heap, "A", p) = <<r.val, TRUE>>
        /\ \A q \in AllPfxs \ {p} : TableGet(r.heap, "A", q) = TableGet(heap, "A", q)
        /\ WalkCidrs(r.heap, "A") = Stored("A") \cup {p}

\* an Update has set the value of the second of three prefixes of one node,
\* between two prefixes of another value
C17_Witness ==
  /\ last.op = "update"
  /\ last.p = PfxList[4]
  /\ last.v = 1
  /\ heap[Root("A", TRUE)].prefixes = <<2, 1, 2>>

(***************************************************************************)
(* C18: for idx in 1..511, lpmByIndex returns the largest set index b of   *)
(* the chain idx, idx >> 1, ..., 1, with the value stored at b and true,   *)
(* and <<0, zero value, false>> when no index of the chain is set.         *)
(***************************************************************************)
C18_LpmByIndexIsFirstSetOfChain ==
  \A id \in TableNodes(heap, "A") : \A idx \in 1..lastHostIndex :
    LET n     == heap[id]
        r     == lpmByIndex(n, idx)
        chain == {b \in n.prefixesBitset : InChain(idx, b)}
    IN  IF chain = {}
        THEN r[1] = 0 /\ r[2] = ZeroVal /\ r[3] = FALSE
        ELSE LET b == CHOOSE x \in chain : \A y \in chain : y <= x
             IN  /\ r[1] = b
                 /\ r[2] = ref["A"][cidrFromPath(id[3], b, id[2])]
                 /\ r[2] = n.prefixes[Rank(n.prefixesBitset, b)]
                 /\ r[3] = TRUE

\* the root node stores 0.0.0.0/0, 10.0.0.0/7 and 10.0.0.0/8 with values
\* 1, 2, 1: from the host index of octet 11 the third index of the chain is
\* set, and from that of octet 12 only the last
C18_Witness ==
  LET n == heap[Root("A", TRUE)]
  IN  /\ n.prefixesBitset = {1, 133, 266}
      /\ n.prefixes = <<1, 2, 1>>
      /\ lpmByIndex(n, octetToBaseIndex(11)) = <<133, 2, TRUE, 2, 1>>
      /\ lpmByIndex(n, octetToBaseIndex(12))[1] = 1

(***************************************************************************)
(* C19: one call of lpmByIndex, started at any base index in 1..511,       *)
(* performs at most 9 bitset tests and at most 1 rank computation, on a    *)
(* hit and on a miss.                                                      *)
(***************************************************************************)
C19_LpmAtMostNineTests ==
  \A id \in TableNodes(heap, "A") : \A idx \in 1..lastHostIndex :
    /\ lpmByIndex(heap[id], idx)[4] <= strideLen + 1
    /\ lpmByIndex(heap[id], idx)[5] <= 1

(***************************************************************************)
(* C20: for every octet in 0..255 and length in 0..8, prefixToBaseIndex    *)
(* is in 1..511, is 1 for length 0, and baseIndexToPrefix gives back the   *)
(* octet with its low 8 - length bits cleared and the length; for every    *)
(* index in 1..511, prefixToBaseIndex of baseIndexToPrefix gives back the  *)
(* index; octetToBaseIndex is prefixToBaseIndex with length 8.             *)
(***************************************************************************)
C20_CodecIsBijection ==
  /\ last.op = "encode" =>
       LET octet == last.p[1]
           len   == last.p[2]
           low   == 2 ^ (strideLen - len)
       IN  /\ last.v \in 1..lastHostIndex
           /\ len = 0 => last.v = 1
           /\ baseIndexToPrefix(last.v) = <<(octet \div low) * low, len>>
           /\ octetToBaseIndex(octet) = prefixToBaseIndex(octet, strideLen)
           /\ \A o \in 0..(maxNodeChildren - 1) :
                prefixToBaseIndex(o, len) = last.v <=> o \div low = octet \div low
  /\ last.op = "decode" =>
       /\ last.p[1] \in 0..(maxNodeChildren - 1)
       /\ last.p[2] \in 0..strideLen
       /\ prefixToBaseIndex(last.p[1], last.p[2]) = last.v

\* the octet 171 with length 3 is encoded as index 13, which decodes to
\* the octet 160 with length 3
C20_Witness ==
  /\ last.op = "encode"
  /\ last.p = <<171, 3>>
  /\ last.v = 13
  /\ baseIndexToPrefix(last.v) = <<160, 3>>

(***************************************************************************)
(* C21: for every base index idx in 1..511, lowerUpperBound(idx) bounds    *)
(* exactly the host indices 256..511 that are descendants of idx in the    *)
(* binary tree; allot on an all-false table sets exactly idx and its       *)
(* descendants, so the host entries it sets are lower..upper; and the      *)
(* iterative branch of allot and allotRec give the same table.             *)
(***************************************************************************)
Descendants(idx) ==
  {j \in 1..lastHostIndex : \E k \in 0..strideLen : Shr(j, k) = idx}

Hosts == firstHostIndex..lastHostIndex

C21_AllotIsTheSubtree ==
  last.op \in {"allot", "allotRec"} =>
    LET idx == last.v.idx
        lo  == last.p[1]
        hi  == last.p[2]
    IN  /\ lo..hi = Descendants(idx) \cap Hosts
        /\ lo <= hi
        /\ last.v.tbl = Descendants(idx)
        /\ last.v.tbl \cap Hosts = lo..hi
        /\ allot({}, idx) = allotRec({}, idx)

\* allot of index 3, the iterative branch, sets 3, 6, 7, ... and the hosts
\* 384..511
C21_Witness ==
  /\ last.op = "allot"
  /\ last.v.idx = 3
  /\ last.p = <<384, 511>>
  /\ last.v.tbl \cap Hosts = 384..511
  /\ Cardinality(last.v.tbl) = 255

(***************************************************************************)
(* C22: overlapsPrefix(octet, len) on a node, for an in-stride prefix      *)
(* whose low 8 - len bits are zero, is true if and only if the node stores *)
(* a prefix index equal to or an ancestor of base = prefixToBaseIndex(     *)
(* octet, len), or stores a descendant of base, or has a child at an octet *)
(* in octet .. octet | hostMask(len).  Indexes from base << 1 on that are  *)
(* not descendants of base, and children outside the range, do not make    *)
(* it true.                                                                *)
(***************************************************************************)
C22_OverlapsPrefixIsChainOrRange ==
  last.op = "overlapsPrefix" =>
    LET n     == heap[last.v]
        octet == last.p[1]
        len   == last.p[2]
        base  == prefixToBaseIndex(octet, len)
        top   == octet + (2 ^ (strideLen - len)) - 1
    IN  last.ok <=>
          \/ \E i \in n.prefixesBitset : InChain(base, i)
          \/ \E i \in n.prefixesBitset : InChain(i, base)
          \/ \E c \in n.childrenBitset : octet <= c /\ c <= top

\* the root stores 11.0.0.0/8 (index 267) and has a child at octet 12, both
\* from 8/7's base << 1 = 264 on and neither inside 8/7: no overlap
C22_Witness ==
  /\ last.op = "overlapsPrefix"
  /\ last.p = <<8, 7>>
  /\ last.v = Root("A", TRUE)
  /\ heap[last.v].prefixesBitset = {267}
  /\ 12 \in heap[last.v].childrenBitset
  /\ ~last.ok

(***************************************************************************)
(* C23: apmByPrefix(octet, len) returns exactly the set base indexes among *)
(* base, base >> 1, ..., 1 with base = prefixToBaseIndex(octet, len), each *)
(* once and in strictly ascending order; the result is empty exactly when  *)
(* lpmByPrefix(octet, len) reports no match, and otherwise its last        *)
(* element is the index lpmByPrefix returns.                               *)
(***************************************************************************)
C23_ApmIsTheSetChain ==
  last.op = "apmByPrefix" =>
    LET n      == heap[last.v.id]
        result == last.v.result
        base   == prefixToBaseIndex(last.p[1], last.p[2])
        lpm    == lpmByPrefix(n, last.p[1], last.p[2])
    IN  /\ SeqRange(result) =
             {i \in n.prefixesBitset : i >= 1 /\ InChain(base, i)}
        /\ \A k \in 1..(Len(result) - 1) : result[k] < result[k + 1]
        /\ (result = <<>>) <=> ~lpm[3]
        /\ result # <<>> => result[Len(result)] = lpm[1]

\* the root stores 10.0.0.0/7 (index 133) and 11.0.0.0/8 (index 267): both
\* match 11/8, the shorter first
C23_Witness ==
  /\ last.op = "apmByPrefix"
  /\ last.p = <<11, 8>>
  /\ last.v.id = Root("A", TRUE)
  /\ last.v.result = <<133, 267>>

(***************************************************************************)
(* C24: walkRec visits in a fixed order: the prefixes of a node in         *)
(* ascending base index order and before every prefix of its child         *)
(* subtrees, the child subtrees in ascending octet order.  So two tables   *)
(* that hold the same prefix-to-value map give the same callback sequence, *)
(* whatever the order of the insertions was.                               *)
(***************************************************************************)
\* the node of a prefix: the octets of the strides before its last one
NodePath(p) == SubSeq(p.octets, 1, lastDepth(p.bits))

\* the base index of a prefix in its node
NodeIdx(p) == prefixToBaseIndex(p.octets[lastDepth(p.bits) + 1], lenInStride(p.bits))

IsPrefixOf(a, b) == Len(a) <= Len(b) /\ SubSeq(b, 1, Len(a)) = a

\* the first stride at which two paths differ
FirstDiff(a, b) == CHOOSE k \in 1..Len(a) : a[k] # b[k] /\ \A j \in 1..(k - 1) : a[j] = b[j]

\* prefix p is visited before prefix q
WalkBefore(p, q) ==
  IF p.is4 # q.is4 THEN p.is4
  ELSE IF NodePath(p) = NodePath(q) THEN NodeIdx(p) < NodeIdx(q)
  ELSE IF IsPrefixOf(NodePath(p), NodePath(q)) THEN TRUE
  ELSE IF IsPrefixOf(NodePath(q), NodePath(p)) THEN FALSE
  ELSE LET k == FirstDiff(NodePath(p), NodePath(q))
       IN  NodePath(p)[k] < NodePath(q)[k]

C24_WalkOrderIsFixed ==
  /\ \A t \in Tables :
       LET out == TableWalk(heap, t, NeverErr).out
       IN  \A i \in 1..Len(out), j \in 1..Len(out) :
             i < j => WalkBefore(out[i][1], out[j][1])
  /\ ref["A"] = ref["B"] =>
       TableWalk(heap, "A", NeverErr).out = TableWalk(heap, "B", NeverErr).out

\* both tables hold 12.0.0.0/7, 10.0.0.0/8 and 10.1.0.0/16, table B also an
\* empty node left by a deletion: the root's 12/7 (index 134) comes before
\* its 10/8 (index 266), and both before the child's 10.1/16
C24_Witness ==
  /\ ref["A"] = ref["B"]
  /\ TableWalk(heap, "A", NeverErr).out =
       << <<Pfx(TRUE, V4(12, 0, 0, 0), 7), 1>>,
          <<Pfx(TRUE, V4(10, 0, 0, 0), 8), 1>>,
          <<Pfx(TRUE, V4(10, 1, 0, 0), 16), 1>> >>
  /\ TableWalk(heap, "B", NeverErr).out = TableWalk(heap, "A", NeverErr).out
  /\ Cardinality(TableNodes(heap, "B")) > Cardinality(TableNodes(heap, "A"))

(***************************************************************************)
(* C25: every loop of the node operations is left: the backtracking loops  *)
(* of lpmByIndex and apmByPrefix, the zig-zag loops of overlapsRec, the    *)
(* NextSet loops of overlapsPrefix and unionRec, and the ancestor-chain    *)
(* loops of subnets, for every start and parent base index in 1..511 and   *)
(* every node of the trie.  A loop that shifts a base index is left within *)
(* strideLen + 2 rounds, a loop over a bitset within one round per set bit *)
(* and one more.                                                           *)
(***************************************************************************)
Running == last.op \in LoopOps /\ ~last.ok
Exited == last.op \in LoopOps /\ last.ok

RoundsBound ==
  LET n == heap[last.p.in.id]
      Card(bs) == Cardinality(bs)
      Max(a, b) == IF a >= b THEN a ELSE b
  IN  CASE last.op \in {"lpmByIndex loop", "apmByPrefix loop",
                        "subnets route loop", "subnets child loop"} -> strideLen + 2
        [] last.op \in {"overlapsPrefix route loop", "unionRec route loop"} ->
             Card(n.prefixesBitset) + 1
        [] last.op \in {"overlapsPrefix child loop", "unionRec child loop"} ->
             Card(n.childrenBitset) + 1
        [] last.op = "overlapsRec route loop" ->
             Max(Card(n.prefixesBitset), Card(heap[last.p.in.o].prefixesBitset)) + 1
        [] last.op = "overlapsRec child loop" ->
             Max(Card(n.childrenBitset), Card(heap[last.p.in.o].childrenBitset)) + 1

ExitWithinBound ==
  /\ Running => last.v < RoundsBound
  /\ Exited => last.v <= RoundsBound

C25_LoopsExit ==
  /\ []ExitWithinBound
  /\ Running ~> Exited

\* the child loop of subnets has no break: with the child at octet 10
\* (index 266) and the parent index 1 it runs down the whole chain, matches
\* in its ninth round and is left in its tenth, when i has fallen to 0
C25_Witness ==
  /\ last.op = "subnets child loop"
  /\ last.p.in.parentIdx = 1
  /\ last.ok
  /\ last.p.at.i = 0
  /\ last.v = 10

(***************************************************************************)
(* C26: in every trie reached by insert, update, delete, union and clone   *)
(* no access is out of bounds: base index 0 is set in no prefix bitset, so *)
(* that lowerUpperBound never reads the entry of index 0 with bits = -1;   *)
(* every stored base index is in 1..511 and every child octet in 0..255;   *)
(* every allotment index overlapsRec writes or reads is in 256..511; and   *)
(* the slot rank - 1 of every set index, in prefixes and in children, is   *)
(* inside the slice.                                                       *)
(***************************************************************************)
\* the pairs of nodes overlapsRec visits: the same path in both tables
SamePath(nId, oId) == nId[1] # oId[1] /\ nId[2] = oId[2] /\ nId[3] = oId[3]

C26_AccessesInBounds ==
  /\ \A id \in DOMAIN heap :
       LET n == heap[id]
       IN  /\ 0 \notin n.prefixesBitset
           /\ n.prefixesBitset \subseteq 1..(maxNodePrefixes - 1)
           /\ n.childrenBitset \subseteq 0..(maxNodeChildren - 1)
           /\ \A i \in n.prefixesBitset :
                /\ prefixRank(n, i) \in 0..(Len(n.prefixes) - 1)
                /\ baseIndexToPrefix(i)[2] \in 0..(Len(hostMasks) - 1)
                /\ HostRange(i) # {}
                /\ HostRange(i) \subseteq Hosts
           /\ \A octet \in n.childrenBitset :
                /\ childRank(n, octet) \in 0..(Len(n.children) - 1)
                /\ octet + firstHostIndex \in Hosts
  /\ \A nId \in DOMAIN heap, oId \in DOMAIN heap :
       SamePath(nId, oId) =>
         LET n  == heap[nId]
             o  == heap[oId]
             zr == ZigZagRoutes(n, o, 0, Len(n.prefixes) > 0, 0, Len(o.prefixes) > 0, {}, {})
         IN  zr.nAllot \cup zr.oAllot \subseteq Hosts

\* 10.2.0.0/15 has been deleted from a node that also holds 10.1.0.0/16
\* (index 257), which has moved from slot 1 to slot 0 of the one-element
\* slice
C26_Witness ==
  /\ last.op = "delete"
  /\ last.ok
  /\ last.p = Pfx(TRUE, V4(10, 2, 0, 0), 15)
  /\ LET n == heap[ChildAddr(Root(last.t, TRUE), 10)]
     IN  /\ n.prefixesBitset = {257}
         /\ Len(n.prefixes) = 1
         /\ prefixRank(n, 257) = 0
====
